---- MODULE Spec2Model ----
(***************************************************************************)
(* League matrix service: the validate -> transform pipeline.              *)
(*                                                                         *)
(* Go strings whose characters the code inspects (file paths, CSV fields,  *)
(* rendered results) are sequences of one-character strings; strings the   *)
(* code only compares as a whole (operation names, messages) are TLA+      *)
(* strings.                                                                *)
(***************************************************************************)
EXTENDS Integers, Sequences, FiniteSets, TLC

VARIABLES
    ctx,        \* what ctx.Err() answers now: "active", "canceled", "deadline"
    operation,  \* ProcessMatrix argument
    filePath,   \* ProcessMatrix / ValidateFilePath argument
    pc,         \* position of the running call
    entryCtx,   \* what ctx.Err() answered at the entry of the call
    calls,      \* stages invoked so far: <<[stage, ctx, err]>>
    file,       \* the file the path resolved to when it was opened
    fileOpens,  \* number of os.Open calls made
    rawData,    \* *repository.MatrixFileContent (Nil or [Content |-> ...])
    matrix,     \* *entity.Matrix (Nil or [Data |-> ...])
    result,     \* returned string
    err,        \* returned error
    request,    \* *http.Request of a handler call: [handler, method] (Nil outside one)
    response,   \* what the handler did to its http.ResponseWriter (Nil outside one)
    invocations,\* concurrent ProcessMatrix calls, each with its own locals
    registry    \* the package variable matrixOperations

vars == <<ctx, operation, filePath, pc, entryCtx, calls, file, fileOpens,
          rawData, matrix, result, err, request, response, invocations, registry>>

-----------------------------------------------------------------------------
(* Bounds of the model *)

\* rows of a generated raw content: 0 .. MaxRawRows (one more than the limit)
MaxRawRows == 11
\* fields of a generated row: 0 .. MaxRawCols (one more than the limit)
MaxRawCols == 11
\* characters of a generated CSV field: 0 .. MaxFieldLen
MaxFieldLen == 3
\* layers of fmt.Errorf around an error handed to GetHTTPStatusCode
MaxWrapLayers == 2
\* ProcessMatrix calls running at once
MaxInvocations == 2

-----------------------------------------------------------------------------
(* Values *)

\* the nil pointer and the nil error
Nil == [nil |-> TRUE]

\* the empty Go string, as a character sequence
EmptyStr == <<>>

-----------------------------------------------------------------------------
(* pkg/errors and package errors. An error value is a record: [at] tells the
   values made by different calls of errors.New apart (two errors of the same
   text are not equal), [msg] is the message in pieces, [nums] and [str] are
   the formatted arguments, and [cause] is what Unwrap returns: the error
   wrapped with %w, or nil. *)

\* errors.New(text), made at the place at
ErrorsNew(at, text) ==
    [at |-> at, msg |-> <<text>>, nums |-> <<>>, str |-> "", cause |-> Nil]

ErrInvalidInput == ErrorsNew("ErrInvalidInput", "invalid input")
ErrNotFound == ErrorsNew("ErrNotFound", "not found")
ErrPayloadTooLarge == ErrorsNew("ErrPayloadTooLarge", "payload too large")
ErrUnprocessableEntity == ErrorsNew("ErrUnprocessableEntity", "unprocessable entity")

Sentinels == {ErrInvalidInput, ErrNotFound, ErrPayloadTooLarge, ErrUnprocessableEntity}

\* fmt.Errorf("%w: <text> ...", sentinel, args...): the message is the
\* sentinel's text, the format's text and the formatted arguments (the
\* numbers, and the string or the cause if any); Unwrap returns the sentinel.
Errorf(sentinel, text, nums, str) ==
    [at |-> "fmt.Errorf", msg |-> sentinel.msg \o <<text>>, nums |-> nums, str |-> str,
     cause |-> sentinel]

\* context.Canceled and context.DeadlineExceeded wrap no sentinel
ContextCanceled == ErrorsNew("context.Canceled", "context canceled")
ContextDeadlineExceeded == ErrorsNew("context.DeadlineExceeded", "context deadline exceeded")

\* a test on the message in place of errors.Is: some piece of e's message is
\* the target's text
ErrorsIsByMessage(e, target) ==
    e # Nil /\ \E k \in 1..Len(e.msg) : e.msg[k] = target.msg[1]

\* errors.Is(e, target): e or an error down its Unwrap chain equals the target
RECURSIVE ErrorsIs(_, _)
ErrorsIs(e, target) == e # Nil /\ (e = target \/ ErrorsIs(e.cause, target))

\* net/http status codes
StatusOK == 200
StatusBadRequest == 400
StatusNotFound == 404
StatusRequestEntityTooLarge == 413
StatusUnprocessableEntity == 422
StatusInternalServerError == 500

\* the switch takes the first case that holds
GetHTTPStatusCode(e) ==
    IF e = Nil THEN StatusOK
    ELSE IF ErrorsIs(e, ErrInvalidInput) THEN StatusBadRequest
    ELSE IF ErrorsIs(e, ErrNotFound) THEN StatusNotFound
    ELSE IF ErrorsIs(e, ErrPayloadTooLarge) THEN StatusRequestEntityTooLarge
    ELSE IF ErrorsIs(e, ErrUnprocessableEntity) THEN StatusUnprocessableEntity
    ELSE StatusInternalServerError

CtxStates == {"active", "canceled", "deadline"}

\* ctx.Err()
CtxErr(c) ==
    CASE c = "canceled" -> ContextCanceled
      [] c = "deadline" -> ContextDeadlineExceeded
      [] OTHER -> Nil

-----------------------------------------------------------------------------
(* package strings *)

\* strings.Contains(s, substr)
Contains(s, substr) ==
    \E i \in 1..(Len(s) - Len(substr) + 1) : SubSeq(s, i, i + Len(substr) - 1) = substr

\* strings.HasPrefix(s, prefix)
HasPrefix(s, prefix) ==
    Len(s) >= Len(prefix) /\ SubSeq(s, 1, Len(prefix)) = prefix

\* strings.HasSuffix(s, suffix)
HasSuffix(s, suffix) ==
    Len(s) >= Len(suffix) /\ SubSeq(s, Len(s) - Len(suffix) + 1, Len(s)) = suffix

DotDot == <<".", ".">>
TestdataDir == <<"t", "e", "s", "t", "d", "a", "t", "a", "/">>
CsvExt == <<".", "c", "s", "v">>

-----------------------------------------------------------------------------
(* domain/matrix_validator.go: ValidateFilePath *)

\* PathChecks without the traversal check
PathChecksNoTraversal(path) ==
    IF path = EmptyStr
    THEN Errorf(ErrInvalidInput, "file parameter is required", <<>>, "")
    ELSE IF ~HasPrefix(path, TestdataDir)
    THEN Errorf(ErrInvalidInput, "only files in testdata/ are allowed", <<>>, "")
    ELSE IF ~HasSuffix(path, CsvExt)
    THEN Errorf(ErrInvalidInput, "only .csv files are supported", <<>>, "")
    ELSE Nil

\* the four path checks with the directory looked at before the traversal
PathChecksPrefixFirst(path) ==
    IF path = EmptyStr
    THEN Errorf(ErrInvalidInput, "file parameter is required", <<>>, "")
    ELSE IF ~HasPrefix(path, TestdataDir)
    THEN Errorf(ErrInvalidInput, "only files in testdata/ are allowed", <<>>, "")
    ELSE IF Contains(path, DotDot)
    THEN Errorf(ErrInvalidInput, "path traversal not allowed", <<>>, "")
    ELSE IF ~HasSuffix(path, CsvExt)
    THEN Errorf(ErrInvalidInput, "only .csv files are supported", <<>>, "")
    ELSE Nil

\* the four path checks, in the order of the code
PathChecks(path) ==
    IF path = EmptyStr
    THEN Errorf(ErrInvalidInput, "file parameter is required", <<>>, "")
    ELSE IF Contains(path, DotDot)
    THEN Errorf(ErrInvalidInput, "path traversal not allowed", <<>>, "")
    ELSE IF ~HasPrefix(path, TestdataDir)
    THEN Errorf(ErrInvalidInput, "only files in testdata/ are allowed", <<>>, "")
    ELSE IF ~HasSuffix(path, CsvExt)
    THEN Errorf(ErrInvalidInput, "only .csv files are supported", <<>>, "")
    ELSE Nil

ValidateFilePath(c, path) ==
    IF CtxErr(c) # Nil THEN CtxErr(c) ELSE PathChecks(path)

-----------------------------------------------------------------------------
(* Integers. An int64 and a math/big Int are both kept as a sign and a
   magnitude, the magnitude as math/big keeps it: a sequence of words, least
   significant first, without leading zero words. A word here holds four
   decimal digits. An int64 is such a value within the 64-bit range. *)

\* the base of one word of a magnitude
WordBase == 10000

DigitChar(d) ==
    CASE d = 0 -> "0" [] d = 1 -> "1" [] d = 2 -> "2" [] d = 3 -> "3" [] d = 4 -> "4"
      [] d = 5 -> "5" [] d = 6 -> "6" [] d = 7 -> "7" [] d = 8 -> "8" [] d = 9 -> "9"

\* nat.norm: the magnitude without its leading zero words
RECURSIVE natNorm(_)
natNorm(z) ==
    IF z # <<>> /\ z[Len(z)] = 0 THEN natNorm(SubSeq(z, 1, Len(z) - 1)) ELSE z

\* nat.cmp: -1, 0 or 1 as x is below, equal to or above y
RECURSIVE natCmp(_, _)
natCmp(x, y) ==
    IF Len(x) # Len(y) THEN (IF Len(x) < Len(y) THEN -1 ELSE 1)
    ELSE IF x = <<>> THEN 0
    ELSE IF x[Len(x)] # y[Len(y)] THEN (IF x[Len(x)] < y[Len(y)] THEN -1 ELSE 1)
    ELSE natCmp(SubSeq(x, 1, Len(x) - 1), SubSeq(y, 1, Len(y) - 1))

\* nat.add: x + y + c, word by word with the carry c
RECURSIVE natAdd(_, _, _)
natAdd(x, y, c) ==
    IF x = <<>> /\ y = <<>> THEN (IF c = 0 THEN <<>> ELSE <<c>>)
    ELSE LET s == (IF x = <<>> THEN 0 ELSE Head(x)) + (IF y = <<>> THEN 0 ELSE Head(y)) + c
         IN <<s % WordBase>>
            \o natAdd(IF x = <<>> THEN <<>> ELSE Tail(x),
                      IF y = <<>> THEN <<>> ELSE Tail(y), s \div WordBase)

\* nat.sub: x - y - b for x >= y, word by word with the borrow b
RECURSIVE natSub(_, _, _)
natSub(x, y, b) ==
    IF x = <<>> THEN <<>>
    ELSE LET d == Head(x) - (IF y = <<>> THEN 0 ELSE Head(y)) - b
         IN <<IF d < 0 THEN d + WordBase ELSE d>>
            \o natSub(Tail(x), IF y = <<>> THEN <<>> ELSE Tail(y), IF d < 0 THEN 1 ELSE 0)

\* nat.mulAddWW: x * y + r for single words y and r
RECURSIVE natMulAddWW(_, _, _)
natMulAddWW(x, y, r) ==
    IF x = <<>> THEN (IF r = 0 THEN <<>> ELSE <<r>>)
    ELSE LET p == Head(x) * y + r
         IN <<p % WordBase>> \o natMulAddWW(Tail(x), y, p \div WordBase)

\* nat.mul: x * y, one word of y at a time
RECURSIVE natMul(_, _)
natMul(x, y) ==
    IF x = <<>> \/ y = <<>> THEN <<>>
    ELSE natNorm(natAdd(natMulAddWW(x, Head(y), 0),
                        IF Tail(y) = <<>> THEN <<>> ELSE <<0>> \o natMul(x, Tail(y)), 0))

\* the four decimal digits of a word
FourDigits(n) ==
    <<DigitChar(n \div 1000), DigitChar((n \div 100) % 10), DigitChar((n \div 10) % 10),
      DigitChar(n % 10)>>

\* the decimal digits of a word, without leading zeros
RECURSIVE FewDigits(_)
FewDigits(n) == IF n < 10 THEN <<DigitChar(n)>> ELSE FewDigits(n \div 10) \o <<DigitChar(n % 10)>>

\* nat.utoa in base 10: the digits of the most significant word without
\* leading zeros, then the four digits of every lower word
natString(x) ==
    IF x = <<>> THEN <<>>
    ELSE FewDigits(x[Len(x)])
         \o [d \in 1..(4 * (Len(x) - 1)) |->
                FourDigits(x[Len(x) - 1 - ((d - 1) \div 4)])[((d - 1) % 4) + 1]]

\* an integer of the given sign and magnitude; zero is never negative
MakeInt(neg, abs) == [neg |-> neg /\ natNorm(abs) # <<>>, abs |-> natNorm(abs)]

\* big.NewInt(0) and big.NewInt(1)
IntZero == MakeInt(FALSE, <<>>)
IntOne == MakeInt(FALSE, <<1>>)

\* (*big.Int).Add
IntAdd(x, y) ==
    IF x.neg = y.neg THEN MakeInt(x.neg, natAdd(x.abs, y.abs, 0))
    ELSE IF natCmp(x.abs, y.abs) >= 0 THEN MakeInt(x.neg, natSub(x.abs, y.abs, 0))
    ELSE MakeInt(~x.neg, natSub(y.abs, x.abs, 0))

\* (*big.Int).Mul
IntMul(x, y) == MakeInt(x.neg # y.neg, natMul(x.abs, y.abs))

\* fmt.Sprintf("%d", val) and (*big.Int).String()
FormatInt(n) ==
    IF n.abs = <<>> THEN <<"0">>
    ELSE (IF n.neg THEN <<"-">> ELSE <<>>) \o natString(n.abs)

-----------------------------------------------------------------------------
(* fmt.Sscanf(val, "%d", &num) and strconv.ParseInt(tok, 10, 64) *)

SpaceChars == {" ", "\t"}
SignChars == {"+", "-"}
DecimalDigits == {"0", "1", "2", "3", "4", "5", "6", "7", "8", "9"}

DigitVal(ch) ==
    CASE ch = "0" -> 0 [] ch = "1" -> 1 [] ch = "2" -> 2 [] ch = "3" -> 3
      [] ch = "4" -> 4 [] ch = "5" -> 5 [] ch = "6" -> 6 [] ch = "7" -> 7
      [] ch = "8" -> 8 [] ch = "9" -> 9

\* the scanner's failure, and its success with the value stored in num
ScanFail(why) == [ok |-> FALSE, val |-> IntZero, why |-> why]
ScanOk(n) == [ok |-> TRUE, val |-> n, why |-> ""]

\* ss.SkipSpace: the input after its leading blanks
RECURSIVE SkipSpace(_)
SkipSpace(s) ==
    IF s # <<>> /\ Head(s) \in SpaceChars THEN SkipSpace(Tail(s)) ELSE s

\* ss.accept(ok) repeated: the longest prefix of s made of characters of ok
RECURSIVE AcceptAll(_, _)
AcceptAll(s, ok) ==
    IF s # <<>> /\ Head(s) \in ok
    THEN <<Head(s)>> \o AcceptAll(Tail(s), ok)
    ELSE <<>>

RECURSIVE StripZeros(_)
StripZeros(ds) ==
    IF Len(ds) > 1 /\ Head(ds) = "0" THEN StripZeros(Tail(ds)) ELSE ds

\* a < b for digit strings of the same length
RECURSIVE DigitsLess(_, _)
DigitsLess(a, b) ==
    IF a = <<>> THEN FALSE
    ELSE IF DigitVal(Head(a)) # DigitVal(Head(b))
    THEN DigitVal(Head(a)) < DigitVal(Head(b))
    ELSE DigitsLess(Tail(a), Tail(b))

\* 1<<63, the cutoff of a 64-bit signed parse, as digits
Int64Cutoff ==
    <<"9", "2", "2", "3", "3", "7", "2", "0", "3", "6",
      "8", "5", "4", "7", "7", "5", "8", "0", "8">>

\* a range check that lets 1<<63 through for either sign
InInt64RangeEitherSign(ds, neg) ==
    LET d == StripZeros(ds)
    IN \/ Len(d) < Len(Int64Cutoff)
       \/ Len(d) = Len(Int64Cutoff) /\ DigitsLess(d, Int64Cutoff)
       \/ d = Int64Cutoff

\* the magnitude fits: below 1<<63, or equal to it for a negative number
InInt64Range(ds, neg) ==
    LET d == StripZeros(ds)
    IN \/ Len(d) < Len(Int64Cutoff)
       \/ Len(d) = Len(Int64Cutoff) /\ DigitsLess(d, Int64Cutoff)
       \/ neg /\ d = Int64Cutoff

\* the magnitude the digits denote: acc * 10 + digit, digit after digit
RECURSIVE DigitsValue(_, _)
DigitsValue(ds, acc) ==
    IF ds = <<>> THEN acc
    ELSE DigitsValue(Tail(ds), natMulAddWW(acc, 10, DigitVal(Head(ds))))

\* math.MinInt64 and math.MaxInt64
MinInt64 == MakeInt(TRUE, DigitsValue(Int64Cutoff, <<>>))
MaxInt64 == IntAdd(MakeInt(FALSE, DigitsValue(Int64Cutoff, <<>>)), MakeInt(TRUE, <<1>>))

\* strconv.ParseInt(tok, 10, 64): an optional sign and decimal digits only (the
\* underscore is a digit separator in base 0 alone), within the 64-bit range
ParseInt(tok) ==
    LET signed == tok # <<>> /\ Head(tok) \in SignChars
        neg == signed /\ Head(tok) = "-"
        ds == IF signed THEN Tail(tok) ELSE tok
    IN IF ds = <<>> \/ \E i \in 1..Len(ds) : ds[i] \notin DecimalDigits
       THEN ScanFail("invalid syntax")
       ELSE IF ~InInt64Range(ds, neg)
       THEN ScanFail("value out of range")
       ELSE ScanOk(MakeInt(neg, DigitsValue(ds, <<>>)))

\* Sscanf with the format "%d": blanks are skipped, one sign is accepted, then
\* the longest run of digits and underscores is the token. The format ends
\* there, and input left after the token is not looked at.
Sscanf(val) ==
    LET s1 == SkipSpace(val)
        sgn == IF s1 # <<>> /\ Head(s1) \in SignChars THEN <<Head(s1)>> ELSE <<>>
        s2 == IF sgn # <<>> THEN Tail(s1) ELSE s1
        tok == AcceptAll(s2, DecimalDigits \cup {"_"})
    IN IF s1 = <<>> THEN ScanFail("unexpected EOF")
       ELSE IF Head(s1) = "\n" THEN ScanFail("unexpected newline")
       ELSE IF s2 = <<>> THEN ScanFail("unexpected EOF")
       ELSE IF tok = <<>> THEN ScanFail("expected integer")
       ELSE ParseInt(sgn \o tok)

-----------------------------------------------------------------------------
(* domain/matrix_validator.go: Validate *)

maxInputMatrixRows == 10
maxInputMatrixCols == 10

\* row-major positions of a rows x cols grid, and their order
Cells(rows, cols) == (1..rows) \X (1..cols)
Before(a, b) == a[1] < b[1] \/ (a[1] = b[1] /\ a[2] < b[2])

\* a conversion that hands back the rows converted before the bad field
\* together with the error
ConvertFieldsKeepingPartial(content, rows, cols) ==
    LET bad == {c \in Cells(rows, cols) : ~Sscanf(content[c[1]][c[2]]).ok}
    IN IF bad # {}
       THEN LET c == CHOOSE x \in bad : \A y \in bad : x = y \/ Before(x, y)
            IN [matrix |-> [Data |-> [i \in 1..(c[1] - 1) |->
                                       [j \in 1..cols |-> Sscanf(content[i][j]).val]]],
                err |-> Errorf(ErrUnprocessableEntity, "invalid integer value at row, column",
                               <<c[1] - 1, c[2] - 1>>, Sscanf(content[c[1]][c[2]]).why)]
       ELSE [matrix |-> [Data |-> [i \in 1..rows |->
                                    [j \in 1..cols |-> Sscanf(content[i][j]).val]]],
             err |-> Nil]

\* the conversion loop: the first field (row-major) that does not scan fails
\* the call, with its 0-based coordinates; otherwise every entry is stored
ConvertFields(content, rows, cols) ==
    LET bad == {c \in Cells(rows, cols) : ~Sscanf(content[c[1]][c[2]]).ok}
    IN IF bad # {}
       THEN LET c == CHOOSE x \in bad : \A y \in bad : x = y \/ Before(x, y)
            IN [matrix |-> Nil,
                err |-> Errorf(ErrUnprocessableEntity, "invalid integer value at row, column",
                               <<c[1] - 1, c[2] - 1>>, Sscanf(content[c[1]][c[2]]).why)]
       ELSE [matrix |-> [Data |-> [i \in 1..rows |->
                                    [j \in 1..cols |-> Sscanf(content[i][j]).val]]],
             err |-> Nil]

\* the dimension limits, each off by one: 11 rows and 11 columns pass
DimensionsExceededOffByOne(rows, cols) ==
    IF rows > maxInputMatrixRows + 1
    THEN Errorf(ErrUnprocessableEntity, "matrix exceeds maximum row limit",
                <<rows, maxInputMatrixRows>>, "")
    ELSE IF cols > maxInputMatrixCols + 1
    THEN Errorf(ErrUnprocessableEntity, "matrix exceeds maximum column limit",
                <<cols, maxInputMatrixCols>>, "")
    ELSE Nil

DimensionsExceeded(rows, cols) ==
    IF rows > maxInputMatrixRows
    THEN Errorf(ErrUnprocessableEntity, "matrix exceeds maximum row limit",
                <<rows, maxInputMatrixRows>>, "")
    ELSE IF cols > maxInputMatrixCols
    THEN Errorf(ErrUnprocessableEntity, "matrix exceeds maximum column limit",
                <<cols, maxInputMatrixCols>>, "")
    ELSE Nil

\* the ragged-row loop: the first row whose length is not cols
InconsistentRow(content, cols) ==
    LET bad == {i \in 1..Len(content) : Len(content[i]) # cols}
    IN IF bad = {} THEN Nil
       ELSE LET i == CHOOSE x \in bad : \A y \in bad : x <= y
            IN Errorf(ErrUnprocessableEntity, "inconsistent row length at row",
                      <<i - 1, cols, Len(content[i])>>, "")

Validate(c, raw) ==
    IF CtxErr(c) # Nil THEN [matrix |-> Nil, err |-> CtxErr(c)]
    ELSE IF raw = Nil \/ Len(raw.Content) = 0
    THEN [matrix |-> Nil, err |-> Errorf(ErrUnprocessableEntity, "empty matrix data", <<>>, "")]
    ELSE LET rows == Len(raw.Content)
             cols == Len(raw.Content[1])
         IN IF DimensionsExceeded(rows, cols) # Nil
            THEN [matrix |-> Nil, err |-> DimensionsExceeded(rows, cols)]
            ELSE IF InconsistentRow(raw.Content, cols) # Nil
            THEN [matrix |-> Nil, err |-> InconsistentRow(raw.Content, cols)]
            ELSE ConvertFields(raw.Content, rows, cols)

-----------------------------------------------------------------------------
(* domain/matrix_operations.go *)

SumOperation == "sum"
MultiplyOperation == "multiply"
EchoOperation == "echo"
InvertOperation == "invert"
FlattenOperation == "flatten"

\* the registry without flatten
matrixOperationsWithoutFlatten ==
    [op \in {SumOperation, MultiplyOperation, EchoOperation, InvertOperation} |-> TRUE]

\* a registry with a name the dispatch of RunOperation has no case for
matrixOperationsWithTranspose ==
    [op \in {SumOperation, MultiplyOperation, EchoOperation, InvertOperation,
             FlattenOperation, "transpose"} |-> TRUE]

\* the registry: map[Operation]bool
matrixOperations ==
    [op \in {SumOperation, MultiplyOperation, EchoOperation, InvertOperation,
             FlattenOperation} |-> TRUE]

\* m[key] of a Go map[Operation]bool: false for a missing key
MapLookup(m, key) == IF key \in DOMAIN m THEN m[key] ELSE FALSE

\* for op := range m: the orders in which the keys of a map may be visited;
\* the language leaves the order open
RangeOrders(m) ==
    {p \in [1..Cardinality(DOMAIN m) -> DOMAIN m] :
        \A a, b \in 1..Cardinality(DOMAIN m) : p[a] = p[b] => a = b}

\* ListOperations when the loop appends nothing
ListOperationsUnfilled == {<<>>}

\* the slices ListOperations may return: the keys of the registry, appended
\* in the order of the range
ListOperations == RangeOrders(matrixOperations)

\* IsValidOperation without the look at the context
IsValidOperationNoContext(c, op) ==
    IF ~MapLookup(matrixOperations, op)
    THEN Errorf(ErrInvalidInput, "invalid operation", <<>>, op)
    ELSE Nil

\* IsValidOperation reading the registry reg
IsValidOperationIn(reg, c, op) ==
    IF CtxErr(c) # Nil THEN CtxErr(c)
    ELSE IF ~MapLookup(reg, op)
    THEN Errorf(ErrInvalidInput, "invalid operation", <<>>, op)
    ELSE Nil

IsValidOperation(c, op) == IsValidOperationIn(matrixOperations, c, op)

\* the elements of all rows, in row-major order
RECURSIVE RowMajor(_)
RowMajor(data) == IF data = <<>> THEN <<>> ELSE Head(data) \o RowMajor(Tail(data))

\* 1<<64
natTwo64 ==
    DigitsValue(<<"1", "8", "4", "4", "6", "7", "4", "4", "0", "7", "3", "7", "0", "9",
                  "5", "5", "1", "6", "1", "6">>, <<>>)

\* what an int64 variable holds after an addition of two int64 whose exact
\* result is x: x itself within the 64-bit range, and x less or plus 1<<64
\* beyond it
Int64Wrap(x) ==
    IF natCmp(x.abs, MinInt64.abs) < 0 \/ x = MinInt64 THEN x
    ELSE IF x.neg THEN IntAdd(x, MakeInt(FALSE, natTwo64))
    ELSE IntAdd(x, MakeInt(TRUE, natTwo64))

\* The loops of sum and multiply. A loop is a recursion on its variables: the
\* rows (or the elements of the row) still to visit and the accumulator.

\* sum's inner loop with an int64 accumulator
RECURSIVE SumRowInt64(_)
SumRowInt64(st) ==
    IF st.vals = <<>> THEN st.acc
    ELSE SumRowInt64([vals |-> Tail(st.vals),
                      acc |-> Int64Wrap(IntAdd(st.acc, Head(st.vals)))])

\* sum's inner loop: sum.Add(sum, big.NewInt(val)) for every val of the row
RECURSIVE SumRow(_)
SumRow(st) ==
    IF st.vals = <<>> THEN st.acc
    ELSE SumRow([vals |-> Tail(st.vals), acc |-> IntAdd(st.acc, Head(st.vals))])

\* sum's outer loop over the rows
RECURSIVE SumOf(_)
SumOf(st) ==
    IF st.rows = <<>> THEN st.acc
    ELSE SumOf([rows |-> Tail(st.rows), acc |-> SumRow([vals |-> Head(st.rows), acc |-> st.acc])])

\* multiply's inner loop with an accumulator of fixed width: five words
RECURSIVE ProductRowFixedWidth(_)
ProductRowFixedWidth(st) ==
    IF st.vals = <<>> THEN st.acc
    ELSE LET p == IntMul(st.acc, Head(st.vals))
         IN ProductRowFixedWidth(
                [vals |-> Tail(st.vals),
                 acc |-> MakeInt(p.neg, [k \in 1..(IF Len(p.abs) < 5 THEN Len(p.abs) ELSE 5) |->
                                           p.abs[k]])])

\* multiply's inner loop: product.Mul(product, big.NewInt(val)) for every val
RECURSIVE ProductRow(_)
ProductRow(st) ==
    IF st.vals = <<>> THEN st.acc
    ELSE ProductRow([vals |-> Tail(st.vals), acc |-> IntMul(st.acc, Head(st.vals))])

\* multiply's outer loop over the rows
RECURSIVE ProductOf(_)
ProductOf(st) ==
    IF st.rows = <<>> THEN st.acc
    ELSE ProductOf([rows |-> Tail(st.rows),
                    acc |-> ProductRow([vals |-> Head(st.rows), acc |-> st.acc])])

\* flatten's inner loop with first set anew for every row
RECURSIVE WriteFlatRowFirstPerRow(_, _, _)
WriteFlatRowFirstPerRow(row, j, first) ==
    IF j > Len(row) THEN <<>>
    ELSE (IF j = 1 THEN <<>> ELSE <<",">>) \o FormatInt(row[j])
         \o WriteFlatRowFirstPerRow(row, j + 1, FALSE)

\* flatten's inner loop: "," before every element but the very first
RECURSIVE WriteFlatRow(_, _, _)
WriteFlatRow(row, j, first) ==
    IF j > Len(row) THEN <<>>
    ELSE (IF first THEN <<>> ELSE <<",">>) \o FormatInt(row[j]) \o WriteFlatRow(row, j + 1, FALSE)

\* flatten's outer loop: first stays set until an element has been written
RECURSIVE WriteFlatRows(_, _, _)
WriteFlatRows(data, i, first) ==
    IF i > Len(data) THEN <<>>
    ELSE WriteFlatRow(data[i], 1, first)
         \o WriteFlatRows(data, i + 1, first /\ Len(data[i]) = 0)

\* the builder loop over one row: "," before every element but the first
RECURSIVE WriteRow(_, _)
WriteRow(row, j) ==
    IF j > Len(row) THEN <<>>
    ELSE (IF j > 1 THEN <<",">> ELSE <<>>) \o FormatInt(row[j]) \o WriteRow(row, j + 1)

\* the builder loop over the rows with "\n" after every row
RECURSIVE WriteRowsTrailing(_, _)
WriteRowsTrailing(data, i) ==
    IF i > Len(data) THEN <<>>
    ELSE WriteRow(data[i], 1) \o <<"\n">> \o WriteRowsTrailing(data, i + 1)

\* the builder loop over the rows: "\n" after every row but the last
RECURSIVE WriteRows(_, _)
WriteRows(data, i) ==
    IF i > Len(data) THEN <<>>
    ELSE WriteRow(data[i], 1) \o (IF i < Len(data) THEN <<"\n">> ELSE <<>>)
         \o WriteRows(data, i + 1)

EmptyMatrix(m) == m = Nil \/ Len(m.Data) = 0

EmptyMatrixError == Errorf(ErrInvalidInput, "empty matrix", <<>>, "")

sum(m) ==
    IF EmptyMatrix(m) THEN [result |-> EmptyStr, err |-> EmptyMatrixError]
    ELSE [result |-> FormatInt(SumOf([rows |-> m.Data, acc |-> IntZero])), err |-> Nil]

multiply(m) ==
    IF EmptyMatrix(m) THEN [result |-> EmptyStr, err |-> EmptyMatrixError]
    ELSE [result |-> FormatInt(ProductOf([rows |-> m.Data, acc |-> IntOne])), err |-> Nil]

echo(m) ==
    IF EmptyMatrix(m) THEN [result |-> EmptyStr, err |-> EmptyMatrixError]
    ELSE [result |-> WriteRows(m.Data, 1), err |-> Nil]

\* a quarter turn in place of the transpose: inverted[i][j] = Data[rows-1-j][i]
Rotated(data) ==
    LET rows == Len(data)
        cols == Len(data[1])
    IN [i \in 1..cols |-> [j \in 1..rows |-> data[rows + 1 - j][i]]]

\* the matrix as it is, in place of its transpose
NotTransposed(data) == data

\* inverted[i][j] = matrix.Data[j][i], cols rows of rows elements
Transposed(data) ==
    LET rows == Len(data)
        cols == Len(data[1])
    IN [i \in 1..cols |-> [j \in 1..rows |-> data[j][i]]]

invert(m) ==
    IF EmptyMatrix(m) THEN [result |-> EmptyStr, err |-> EmptyMatrixError]
    ELSE [result |-> WriteRows(Transposed(m.Data), 1), err |-> Nil]

flatten(m) ==
    IF EmptyMatrix(m) THEN [result |-> EmptyStr, err |-> EmptyMatrixError]
    ELSE [result |-> WriteFlatRows(m.Data, 1, TRUE), err |-> Nil]

\* RunOperation whose default case runs echo
RunOperationEchoByDefault(c, m, op) ==
    IF CtxErr(c) # Nil THEN [result |-> EmptyStr, err |-> CtxErr(c)]
    ELSE CASE op = SumOperation -> sum(m)
           [] op = MultiplyOperation -> multiply(m)
           [] op = InvertOperation -> invert(m)
           [] op = FlattenOperation -> flatten(m)
           [] OTHER -> echo(m)

RunOperation(c, m, op) ==
    IF CtxErr(c) # Nil THEN [result |-> EmptyStr, err |-> CtxErr(c)]
    ELSE CASE op = SumOperation -> sum(m)
           [] op = MultiplyOperation -> multiply(m)
           [] op = EchoOperation -> echo(m)
           [] op = InvertOperation -> invert(m)
           [] op = FlattenOperation -> flatten(m)
           [] OTHER -> [result |-> EmptyStr,
                        err |-> Errorf(ErrInvalidInput, "unsupported operation", <<>>, op)]

-----------------------------------------------------------------------------
(* repository/matrix.go: GetFileContent *)

maxFileSizeBytes == 1024

\* What a path resolves to: [exists] says whether os.Open succeeds, [statOk]
\* whether file.Stat does, [size] is the size Stat reports, [syntaxOk] whether
\* the bytes are well-formed CSV, and [rows] the records the bytes hold.
FileOf(exists, statOk, size, syntaxOk, rows) ==
    [exists |-> exists, statOk |-> statOk, size |-> size, syntaxOk |-> syntaxOk,
     rows |-> rows]

\* csv.Reader.ReadAll with the default FieldsPerRecord = 0: every record must
\* have the field count of the first one
CsvReadAll(f) ==
    IF ~f.syntaxOk THEN [records |-> <<>>, ok |-> FALSE, why |-> "parse error"]
    ELSE IF \E i \in 1..Len(f.rows) : Len(f.rows[i]) # Len(f.rows[1])
    THEN [records |-> <<>>, ok |-> FALSE, why |-> "wrong number of fields"]
    ELSE [records |-> f.rows, ok |-> TRUE, why |-> ""]

\* a size check that also turns away a file of exactly the maximum
TooLargeAtMaximum(f) == f.size >= maxFileSizeBytes

\* fileInfo.Size() > maxFileSizeBytes
TooLarge(f) == f.size > maxFileSizeBytes

\* [opened]: whether os.Open was called; [read]: whether reader.ReadAll was
GetFileContent(c, f) ==
    IF CtxErr(c) # Nil
    THEN [content |-> Nil, err |-> CtxErr(c), opened |-> FALSE, read |-> FALSE]
    ELSE IF ~f.exists
    THEN [content |-> Nil, opened |-> TRUE, read |-> FALSE,
          err |-> Errorf(ErrNotFound, "failed to open file", <<>>, "open error")]
    ELSE IF ~f.statOk
    THEN [content |-> Nil, opened |-> TRUE, read |-> FALSE,
          err |-> Errorf(ErrNotFound, "failed to get file info", <<>>, "stat error")]
    ELSE IF TooLarge(f)
    THEN [content |-> Nil, opened |-> TRUE, read |-> FALSE,
          err |-> Errorf(ErrPayloadTooLarge, "file too large",
                         <<f.size, maxFileSizeBytes>>, "")]
    ELSE IF ~CsvReadAll(f).ok
    THEN [content |-> Nil, opened |-> TRUE, read |-> TRUE,
          err |-> Errorf(ErrUnprocessableEntity, "failed to read CSV file", <<>>,
                         CsvReadAll(f).why)]
    ELSE [content |-> [Content |-> CsvReadAll(f).records], err |-> Nil, opened |-> TRUE,
          read |-> TRUE]

-----------------------------------------------------------------------------
(* Inputs *)

\* operation names a request may carry
OperationNames ==
    {SumOperation, MultiplyOperation, EchoOperation, InvertOperation, FlattenOperation,
     "", "divide", "SUM"}

\* file paths a request may carry: a directory part, a stem and an ending
PathDirs ==
    {<<>>, TestdataDir, <<"d", "a", "t", "a", "/">>, <<".", ".", "/">>,
     TestdataDir \o <<".", ".", "/">>, <<"x", "/">> \o TestdataDir}
PathStems == {<<>>, <<"m">>, <<".">>, <<"a", ".", ".", "b">>, <<"m", ".", "c", "s", "v", "/", "n">>}
PathEndings == {<<>>, CsvExt, <<".", "t", "x", "t">>, <<".", "c", "s", "v", "x">>, <<".">>}
FilePaths == {d \o st \o e : d \in PathDirs, st \in PathStems, e \in PathEndings}

\* CSV fields
F1 == <<"1">>
F2 == <<"2">>
F3 == <<"3">>
F4 == <<"4">>
F5 == <<"5">>
F6 == <<"6">>

\* the rows of the files a path may resolve to
SampleRows ==
    {<< <<F1, F2, F3>>, <<F4, F5, F6>> >>,
     << <<F2, F3>>, <<F4, F5>> >>,
     << <<<<"-", "7">>>> >>,
     << <<F1, <<"0">>>>, <<F3, <<"-", "2">>>> >>,
     << <<F1, F2, F3>>, <<F4, F5>> >>,
     << <<F1, <<"a">>>> >>,
     << <<<<"1", "2", "a">>, F2>> >>,
     << <<<<"1", ".", "5">>>> >>,
     << <<F1, <<>>>> >>,
     <<>>,
     [i \in 1..(maxInputMatrixRows + 1) |-> <<F1, F2>>]}

Files ==
    {FileOf(FALSE, FALSE, 0, FALSE, <<>>),
     FileOf(TRUE, FALSE, 0, FALSE, <<>>),
     FileOf(TRUE, TRUE, maxFileSizeBytes + 1, TRUE, << <<F1>> >>),
     FileOf(TRUE, TRUE, maxFileSizeBytes, TRUE, << <<F1>> >>),
     FileOf(TRUE, TRUE, 64, FALSE, <<>>)}
    \cup {FileOf(TRUE, TRUE, 64, TRUE, rows) : rows \in SampleRows}

-----------------------------------------------------------------------------
(* domain/matrix.go: ProcessMatrix, one step per stage; the request's context
   may be cancelled, or its deadline may pass, between any two steps *)

Stages == <<"ValidateFilePath", "IsValidOperation", "GetFileContent", "Validate",
            "RunOperation">>

\* the statement order of ProcessMatrix with the file read before the
\* operation name is validated
AfterStageReadFirst(stage) ==
    CASE stage = "ValidateFilePath" -> "GetFileContent"
      [] stage = "GetFileContent" -> "IsValidOperation"
      [] stage = "IsValidOperation" -> "Validate"
      [] stage = "Validate" -> "RunOperation"
      [] stage = "RunOperation" -> "done"

\* the statement order of ProcessMatrix without the matrix validation
AfterStageSkipValidate(stage) ==
    CASE stage = "ValidateFilePath" -> "IsValidOperation"
      [] stage = "IsValidOperation" -> "GetFileContent"
      [] stage = "GetFileContent" -> "RunOperation"
      [] stage = "Validate" -> "RunOperation"
      [] stage = "RunOperation" -> "done"

\* the statement order of ProcessMatrix: where control goes when a stage
\* returned no error
AfterStage(stage) ==
    CASE stage = "ValidateFilePath" -> "IsValidOperation"
      [] stage = "IsValidOperation" -> "GetFileContent"
      [] stage = "GetFileContent" -> "Validate"
      [] stage = "Validate" -> "RunOperation"
      [] stage = "RunOperation" -> "done"

\* an orchestrator that reports every failure as one of its own
FailWithOwnError(e) ==
    [result |-> EmptyStr,
     err |-> Errorf(ErrInvalidInput, "matrix processing failed", <<>>, "")]

\* `return "", err`
FailWith(e) == [result |-> EmptyStr, err |-> e]

\* the entry checks without the look at the context
EntryCheckNoContext(c, op) ==
    IF op = "" THEN Errorf(ErrInvalidInput, "operation parameter is required", <<>>, "")
    ELSE Nil

\* the entry checks without the look at the operation
EntryCheckNoOperation(c, op) == CtxErr(c)

\* the checks ProcessMatrix makes itself before the first stage
EntryCheck(c, op) ==
    IF CtxErr(c) # Nil THEN CtxErr(c)
    ELSE IF op = "" THEN Errorf(ErrInvalidInput, "operation parameter is required", <<>>, "")
    ELSE Nil

Invoked(stage, e) == Append(calls, [stage |-> stage, ctx |-> ctx, err |-> e])

Init ==
    /\ ctx \in CtxStates
    /\ operation \in OperationNames
    /\ filePath \in FilePaths
    /\ pc = "start"
    /\ entryCtx = "none"
    /\ calls = <<>>
    /\ file = Nil
    /\ fileOpens = 0
    /\ rawData = Nil
    /\ matrix = Nil
    /\ result = EmptyStr
    /\ err = Nil
    /\ request = Nil
    /\ response = Nil
    /\ invocations = <<>>
    /\ registry = matrixOperations

\* the client disconnects
Cancel ==
    /\ pc # "done"
    /\ ctx = "active"
    /\ ctx' = "canceled"
    /\ UNCHANGED <<operation, filePath, pc, entryCtx, calls, file, fileOpens, rawData,
                   matrix, result, err>>
    /\ UNCHANGED <<request, response, invocations, registry>>

\* the request's deadline passes
DeadlineExpires ==
    /\ pc # "done"
    /\ ctx = "active"
    /\ ctx' = "deadline"
    /\ UNCHANGED <<operation, filePath, pc, entryCtx, calls, file, fileOpens, rawData,
                   matrix, result, err>>
    /\ UNCHANGED <<request, response, invocations, registry>>

Enter ==
    /\ pc = "start"
    /\ entryCtx' = ctx
    /\ LET e == EntryCheck(ctx, operation)
       IN IF e # Nil
          THEN /\ result' = FailWith(e).result
               /\ err' = FailWith(e).err
               /\ pc' = "done"
          ELSE /\ pc' = Stages[1]
               /\ UNCHANGED <<result, err>>
    /\ UNCHANGED <<ctx, operation, filePath, calls, file, fileOpens, rawData, matrix>>
    /\ UNCHANGED <<request, response, invocations, registry>>

StageValidateFilePath ==
    /\ pc = "ValidateFilePath"
    /\ LET e == ValidateFilePath(ctx, filePath)
       IN /\ calls' = Invoked("ValidateFilePath", e)
          /\ IF e # Nil
             THEN /\ result' = FailWith(e).result
                  /\ err' = FailWith(e).err
                  /\ pc' = "done"
             ELSE /\ pc' = AfterStage("ValidateFilePath")
                  /\ UNCHANGED <<result, err>>
    /\ UNCHANGED <<ctx, operation, filePath, entryCtx, file, fileOpens, rawData, matrix>>
    /\ UNCHANGED <<request, response, invocations, registry>>

StageIsValidOperation ==
    /\ pc = "IsValidOperation"
    /\ LET e == IsValidOperation(ctx, operation)
       IN /\ calls' = Invoked("IsValidOperation", e)
          /\ IF e # Nil
             THEN /\ result' = FailWith(e).result
                  /\ err' = FailWith(e).err
                  /\ pc' = "done"
             ELSE /\ pc' = AfterStage("IsValidOperation")
                  /\ UNCHANGED <<result, err>>
    /\ UNCHANGED <<ctx, operation, filePath, entryCtx, file, fileOpens, rawData, matrix>>
    /\ UNCHANGED <<request, response, invocations, registry>>

StageGetFileContent ==
    /\ pc = "GetFileContent"
    /\ \E f \in Files :
         LET r == GetFileContent(ctx, f)
         IN /\ calls' = Invoked("GetFileContent", r.err)
            /\ file' = IF r.opened THEN f ELSE file
            /\ fileOpens' = IF r.opened THEN fileOpens + 1 ELSE fileOpens
            /\ rawData' = r.content
            /\ IF r.err # Nil
               THEN /\ result' = FailWith(r.err).result
                    /\ err' = FailWith(r.err).err
                    /\ pc' = "done"
               ELSE /\ pc' = AfterStage("GetFileContent")
                    /\ UNCHANGED <<result, err>>
    /\ UNCHANGED <<ctx, operation, filePath, entryCtx, matrix>>
    /\ UNCHANGED <<request, response, invocations, registry>>

StageValidate ==
    /\ pc = "Validate"
    /\ LET r == Validate(ctx, rawData)
       IN /\ calls' = Invoked("Validate", r.err)
          /\ matrix' = r.matrix
          /\ IF r.err # Nil
             THEN /\ result' = FailWith(r.err).result
                  /\ err' = FailWith(r.err).err
                  /\ pc' = "done"
             ELSE /\ pc' = AfterStage("Validate")
                  /\ UNCHANGED <<result, err>>
    /\ UNCHANGED <<ctx, operation, filePath, entryCtx, file, fileOpens, rawData>>
    /\ UNCHANGED <<request, response, invocations, registry>>

StageRunOperation ==
    /\ pc = "RunOperation"
    /\ LET r == RunOperation(ctx, matrix, operation)
       IN /\ calls' = Invoked("RunOperation", r.err)
          /\ IF r.err # Nil
             THEN /\ result' = FailWith(r.err).result
                  /\ err' = FailWith(r.err).err
                  /\ pc' = "done"
             ELSE /\ result' = r.result
                  /\ err' = Nil
                  /\ pc' = AfterStage("RunOperation")
    /\ UNCHANGED <<ctx, operation, filePath, entryCtx, file, fileOpens, rawData, matrix>>
    /\ UNCHANGED <<request, response, invocations, registry>>

Next ==
    \/ Cancel
    \/ DeadlineExpires
    \/ Enter
    \/ StageValidateFilePath
    \/ StageIsValidOperation
    \/ StageGetFileContent
    \/ StageValidate
    \/ StageRunOperation

Spec == Init /\ [][Next]_vars

-----------------------------------------------------------------------------
(* Claims about ProcessMatrix, under Spec *)

LastCall == calls[Len(calls)]

StageInvoked(stage) == \E i \in 1..Len(calls) : calls[i].stage = stage

\* the path policy, character by character
NoDotDot(p) == \A i \in 1..(Len(p) - 1) : ~(p[i] = "." /\ p[i + 1] = ".")
StartsWithTestdata(p) ==
    Len(p) >= Len(TestdataDir) /\ \A k \in 1..Len(TestdataDir) : p[k] = TestdataDir[k]
EndsWithCsv(p) ==
    Len(p) >= Len(CsvExt) /\ \A k \in 1..Len(CsvExt) : p[Len(p) - Len(CsvExt) + k] = CsvExt[k]
PathInPolicy(p) == Len(p) > 0 /\ NoDotDot(p) /\ StartsWithTestdata(p) /\ EndsWithCsv(p)

FiveOperations == {"sum", "multiply", "echo", "invert", "flatten"}

\* C1: the stages invoked are always a prefix of ValidateFilePath,
\* IsValidOperation, GetFileContent, Validate, RunOperation: each at most once,
\* in that order, and a stage is invoked only if every earlier one returned no
\* error.
C1_StagesArePrefix ==
    /\ Len(calls) <= Len(Stages)
    /\ \A i \in 1..Len(calls) :
         /\ calls[i].stage = Stages[i]
         /\ \A j \in 1..(i - 1) : calls[j].err = Nil

\* a run cut short by the third stage's failure
C1_Witness == pc = "done" /\ Len(calls) = 3 /\ LastCall.err # Nil

\* C2: the content provider is invoked, and a file opened, only after
\* ValidateFilePath accepted the path and IsValidOperation accepted the
\* operation: never for an empty, traversal, non-testdata/ or non-.csv path, nor
\* for an unrecognized operation.
C2_ReadOnlyAfterValidation ==
    /\ fileOpens > 0 => StageInvoked("GetFileContent")
    /\ \A i \in 1..Len(calls) :
         calls[i].stage = "GetFileContent" =>
             /\ \E j \in 1..(i - 1) :
                  calls[j].stage = "ValidateFilePath" /\ calls[j].err = Nil
             /\ \E j \in 1..(i - 1) :
                  calls[j].stage = "IsValidOperation" /\ calls[j].err = Nil
             /\ PathInPolicy(filePath)
             /\ operation \in FiveOperations

C2_Witness == StageInvoked("GetFileContent") /\ fileOpens = 1

\* C3: with the context already cancelled at entry, ProcessMatrix returns ""
\* and context.Canceled itself, whatever the operation and the path, and
\* invokes no stage.
C3_CancelledAtEntry ==
    pc = "done" /\ entryCtx = "canceled" =>
        /\ result = EmptyStr
        /\ err = ContextCanceled
        /\ ~\E s \in Sentinels : ErrorsIs(err, s)
        /\ calls = <<>>
        /\ fileOpens = 0

\* cancelled at entry, with an invalid operation and an invalid path
C3_Witness ==
    /\ pc = "done"
    /\ entryCtx = "canceled"
    /\ operation = "divide"
    /\ ~PathInPolicy(filePath)

\* C4: a stage entered with the context cancelled or past its deadline does
\* none of its work and returns the context's error itself, and ProcessMatrix
\* returns that same error, not reclassified, wherever between the stages the
\* cancellation happened.
C4_StageSeesCancellation ==
    \A i \in 1..Len(calls) :
        calls[i].ctx # "active" =>
            /\ calls[i].err = CtxErr(calls[i].ctx)
            /\ i = Len(calls)
            /\ pc = "done"
            /\ err = calls[i].err
            /\ ~\E s \in Sentinels : ErrorsIs(err, s)
            /\ result = EmptyStr
            /\ calls[i].stage = "GetFileContent" => fileOpens = 0 /\ rawData = Nil
            /\ calls[i].stage = "Validate" => matrix = Nil

\* the deadline passed after the file was read and before Validate was entered
C4_Witness ==
    /\ Len(calls) = 4
    /\ calls[1].ctx = "active"
    /\ calls[3].ctx = "active"
    /\ calls[4].ctx = "deadline"

\* C5 as stated: an empty operation always yields InvalidInput, and no stage
\* is invoked.
C5_EmptyOperationAlwaysInvalidInput ==
    pc = "done" /\ operation = "" =>
        /\ ErrorsIs(err, ErrInvalidInput)
        /\ calls = <<>>
        /\ fileOpens = 0

\* C5, amended: with an empty operation no stage is invoked and no file is
\* opened, whatever the path; the error is InvalidInput when the context is
\* live at entry, and the context's own error when it is not.
C5_EmptyOperation ==
    pc = "done" /\ operation = "" =>
        /\ calls = <<>>
        /\ fileOpens = 0
        /\ result = EmptyStr
        /\ entryCtx = "active" => ErrorsIs(err, ErrInvalidInput)
        /\ entryCtx # "active" => err = CtxErr(entryCtx)

\* an empty operation with a path outside the policy, on a live context
C5_Witness ==
    /\ pc = "done"
    /\ operation = ""
    /\ entryCtx = "active"
    /\ ~NoDotDot(filePath)

\* C6: when a stage fails, ProcessMatrix returns that stage's error unchanged
\* (classification and message) with an empty result, and nothing after the
\* failing stage replaces it.
C6_ErrorPropagatedUnchanged ==
    \A i \in 1..Len(calls) :
        calls[i].err # Nil =>
            /\ i = Len(calls)
            /\ pc = "done"
            /\ err = calls[i].err
            /\ \A s \in Sentinels : ErrorsIs(err, s) <=> ErrorsIs(calls[i].err, s)
            /\ err.msg = calls[i].err.msg
            /\ result = EmptyStr

\* the content provider failed NotFound
C6_Witness ==
    /\ pc = "done"
    /\ Len(calls) = 3
    /\ ErrorsIs(LastCall.err, ErrNotFound)

\* C7: on a live context ValidateFilePath returns no error exactly for the
\* paths that are non-empty, hold no "..", start with "testdata/" and end with
\* ".csv", and an InvalidInput error for every other path.
C7_PathAcceptedIffInPolicy ==
    \A i \in 1..Len(calls) :
        calls[i].stage = "ValidateFilePath" /\ calls[i].ctx = "active" =>
            /\ calls[i].err = Nil <=> PathInPolicy(filePath)
            /\ calls[i].err # Nil => ErrorsIs(calls[i].err, ErrInvalidInput)

\* a path with the right prefix and extension and a ".." in between, rejected
C7_Witness ==
    /\ Len(calls) = 1
    /\ calls[1].stage = "ValidateFilePath"
    /\ calls[1].ctx = "active"
    /\ StartsWithTestdata(filePath) /\ EndsWithCsv(filePath) /\ ~NoDotDot(filePath)
    /\ ErrorsIs(calls[1].err, ErrInvalidInput)

-----------------------------------------------------------------------------
(* Validate called on its own: SpecValidate draws the context and the raw
   content, and one call is made *)

\* characters of a generated field
FieldChars == {"0", "1", "-", "+", " ", ".", "a", "_"}

RECURSIVE StringsOfLen(_)
StringsOfLen(n) ==
    IF n = 0 THEN {<<>>}
    ELSE {<<ch>> \o st : ch \in FieldChars, st \in StringsOfLen(n - 1)}

Fields == UNION {StringsOfLen(n) : n \in 0..MaxFieldLen}

\* a one-digit field that differs from cell to cell
CellField(i, j) == <<DigitChar((3 * i + j) % 10)>>

\* contents of every shape: rows rows of cols fields, but row odd (if any) is
\* one field shorter or longer
ShapedContents ==
    {[Content |-> [i \in 1..rows |->
                    [j \in 1..(IF i = odd THEN oddLen ELSE cols) |-> CellField(i, j)]]] :
        <<rows, cols, odd, oddLen>> \in
            {s \in (0..MaxRawRows) \X (0..MaxRawCols) \X (0..MaxRawRows) \X (0..MaxRawCols) :
                /\ s[3] <= s[1]
                /\ s[4] \in {s[2] - 1, s[2] + 1}}}

\* one row or one column of two cells, or a single cell, in which one cell
\* holds any field
FieldContents ==
    {[Content |-> [i \in 1..rows |->
                    [j \in 1..cols |-> IF <<i, j>> = cell THEN f ELSE CellField(i, j)]]] :
        <<rows, cols, cell>> \in
            {s \in (1..2) \X (1..2) \X ((1..2) \X (1..2)) :
                s[1] + s[2] <= 3 /\ s[3][1] <= s[1] /\ s[3][2] <= s[2]},
        f \in Fields}

RawContents == {Nil} \cup ShapedContents \cup FieldContents

InitValidate ==
    /\ \/ ctx = "active" /\ rawData \in RawContents
       \/ ctx \in {"canceled", "deadline"}
          /\ rawData \in {Nil} \cup {[Content |-> rows] : rows \in SampleRows}
    /\ operation = ""
    /\ filePath = EmptyStr
    /\ pc = "call"
    /\ entryCtx = "none"
    /\ calls = <<>>
    /\ file = Nil
    /\ fileOpens = 0
    /\ matrix = Nil
    /\ result = EmptyStr
    /\ err = Nil
    /\ request = Nil
    /\ response = Nil
    /\ invocations = <<>>
    /\ registry = matrixOperations

CallValidate ==
    /\ pc = "call"
    /\ LET r == Validate(ctx, rawData)
       IN /\ matrix' = r.matrix
          /\ err' = r.err
          /\ calls' = Invoked("Validate", r.err)
    /\ entryCtx' = ctx
    /\ pc' = "ret"
    /\ UNCHANGED <<ctx, operation, filePath, file, fileOpens, rawData, result>>
    /\ UNCHANGED <<request, response, invocations, registry>>

NextValidate == CallValidate

SpecValidate == InitValidate /\ [][NextValidate]_vars

-----------------------------------------------------------------------------
(* Claims about Validate, under SpecValidate *)

RECURSIVE TrimRight(_)
TrimRight(s) ==
    IF s # <<>> /\ s[Len(s)] \in SpaceChars THEN TrimRight(SubSeq(s, 1, Len(s) - 1)) ELSE s

\* the field without the blanks around it and without its sign
Unsigned(field) ==
    LET t == TrimRight(SkipSpace(field))
    IN IF t # <<>> /\ t[1] \in SignChars THEN Tail(t) ELSE t

\* the field is an integer even on a lenient reading: blanks around it and a
\* sign before it are let through, and the rest is decimal digits only
DenotesInteger(field) ==
    /\ Unsigned(field) # <<>>
    /\ \A k \in 1..Len(Unsigned(field)) : Unsigned(field)[k] \in DecimalDigits

IntegerDenoted(field) ==
    LET t == TrimRight(SkipSpace(field))
    IN MakeInt(t[1] = "-", DigitsValue(Unsigned(field), <<>>))

SomeFieldNotInteger(raw) ==
    /\ raw # Nil
    /\ \E i \in 1..Len(raw.Content) :
         \E j \in 1..Len(raw.Content[i]) : ~DenotesInteger(raw.Content[i][j])

\* C8: Validate fails with UnprocessableEntity whenever a field is not a clean
\* integer (empty, blank, non-numeric, a decimal, digits followed by other
\* characters); a partial parse is never accepted. Stated for a live context
\* and for fields that are no integer even on a lenient reading.
C8_NonIntegerFieldRejected ==
    pc = "ret" /\ entryCtx = "active" /\ SomeFieldNotInteger(rawData) =>
        matrix = Nil /\ ErrorsIs(err, ErrUnprocessableEntity)

BadShape(raw) ==
    \/ raw = Nil
    \/ Len(raw.Content) = 0
    \/ Len(raw.Content) > 10
    \/ Len(raw.Content[1]) > 10
    \/ \E i \in 1..Len(raw.Content) : Len(raw.Content[i]) # Len(raw.Content[1])

TenByTenOfIntegers(raw) ==
    /\ raw # Nil
    /\ Len(raw.Content) = 10
    /\ \A i \in 1..10 :
         /\ Len(raw.Content[i]) = 10
         /\ \A j \in 1..10 : raw.Content[i][j] = CellField(i, j)

\* C9 as stated: a nil matrix and an UnprocessableEntity error whenever the
\* content is absent, has no rows, more than 10 rows, a first row of more than
\* 10 fields or a row of another length than the first; 10x10 is accepted.
C9_BadShapeAlwaysUnprocessable ==
    pc = "ret" =>
        /\ BadShape(rawData) => matrix = Nil /\ ErrorsIs(err, ErrUnprocessableEntity)
        /\ TenByTenOfIntegers(rawData) => matrix # Nil /\ err = Nil

\* C9, amended: the same on a context that is live when Validate is entered;
\* on a cancelled or expired one the matrix is nil and the error is the
\* context's.
C9_BadShapeRejected ==
    pc = "ret" =>
        /\ entryCtx = "active" /\ BadShape(rawData) =>
               matrix = Nil /\ ErrorsIs(err, ErrUnprocessableEntity)
        /\ entryCtx = "active" /\ TenByTenOfIntegers(rawData) => matrix # Nil /\ err = Nil
        /\ entryCtx # "active" => matrix = Nil /\ err = CtxErr(entryCtx)

\* 10 rows of 11 fields, rejected on a live context
C9_Witness ==
    /\ pc = "ret"
    /\ entryCtx = "active"
    /\ rawData # Nil
    /\ Len(rawData.Content) = 10
    /\ \A i \in 1..10 : Len(rawData.Content[i]) = 11
    /\ matrix = Nil
    /\ ErrorsIs(err, ErrUnprocessableEntity)

\* C10: whenever Validate succeeds the matrix is rectangular, has 1 to 10
\* rows and at most 10 columns, has the rows and columns of the raw content,
\* and its entry at (i, j) is the integer the raw field at (i, j) denotes.
C10_MatrixIsTheContent ==
    pc = "ret" /\ err = Nil =>
        /\ matrix # Nil
        /\ rawData # Nil
        /\ Len(matrix.Data) \in 1..10
        /\ Len(matrix.Data) = Len(rawData.Content)
        /\ \A i \in 1..Len(matrix.Data) :
             /\ Len(matrix.Data[i]) = Len(matrix.Data[1])
             /\ Len(matrix.Data[i]) <= 10
             /\ Len(matrix.Data[i]) = Len(rawData.Content[i])
             /\ \A j \in 1..Len(matrix.Data[i]) :
                  /\ DenotesInteger(rawData.Content[i][j])
                  /\ matrix.Data[i][j] = IntegerDenoted(rawData.Content[i][j])

-----------------------------------------------------------------------------
(* The operations called on their own: SpecOperations draws the context, the
   operation name and the matrix, and one method of the operations domain is
   called *)

\* the int64 of a literal
RECURSIVE natOfLiteral(_)
natOfLiteral(n) ==
    IF n = 0 THEN <<>> ELSE <<n % WordBase>> \o natOfLiteral(n \div WordBase)

Int64Of(n) == MakeInt(n < 0, natOfLiteral(IF n < 0 THEN 0 - n ELSE n))

\* entries of the small matrices
EntryValues == {Int64Of(0), Int64Of(-1), Int64Of(2), MaxInt64, MinInt64}

\* every matrix of at most 2 x 2 over EntryValues
SmallMatrices ==
    {[Data |-> d] :
        d \in UNION {[1..rows -> [1..cols -> EntryValues]] : rows \in 1..2, cols \in 1..2}}

\* an entry that differs from cell to cell, of either sign, and is never zero
CellEntry(i, j) ==
    IF (i + j) % 3 = 0 THEN Int64Of(0 - (10 * i + j)) ELSE Int64Of(10 * i + j)

\* one matrix of every shape from 1 x 0 to 10 x 10
ShapedMatrices ==
    {[Data |-> [i \in 1..rows |-> [j \in 1..cols |-> CellEntry(i, j)]]] :
        rows \in 1..maxInputMatrixRows, cols \in 0..maxInputMatrixCols}

\* the matrices RunOperation is handed: none, one without rows, and the above
OperationMatrices == {Nil, [Data |-> <<>>]} \cup SmallMatrices \cup ShapedMatrices

InitOperations ==
    /\ ctx \in CtxStates
    /\ operation \in OperationNames
    /\ matrix \in OperationMatrices
    /\ filePath = EmptyStr
    /\ pc = "call"
    /\ entryCtx = "none"
    /\ calls = <<>>
    /\ file = Nil
    /\ fileOpens = 0
    /\ rawData = Nil
    /\ result = EmptyStr
    /\ err = Nil
    /\ request = Nil
    /\ response = Nil
    /\ invocations = <<>>
    /\ registry = matrixOperations

CallIsValidOperation ==
    /\ pc = "call"
    /\ err' = IsValidOperation(ctx, operation)
    /\ calls' = Invoked("IsValidOperation", IsValidOperation(ctx, operation))
    /\ entryCtx' = ctx
    /\ pc' = "ret"
    /\ UNCHANGED <<ctx, operation, filePath, file, fileOpens, rawData, matrix, result>>
    /\ UNCHANGED <<request, response, invocations, registry>>

CallRunOperation ==
    /\ pc = "call"
    /\ LET r == RunOperation(ctx, matrix, operation)
       IN /\ result' = r.result
          /\ err' = r.err
          /\ calls' = Invoked("RunOperation", r.err)
    /\ entryCtx' = ctx
    /\ pc' = "ret"
    /\ UNCHANGED <<ctx, operation, filePath, file, fileOpens, rawData, matrix>>
    /\ UNCHANGED <<request, response, invocations, registry>>

NextOperations == CallIsValidOperation \/ CallRunOperation

SpecOperations == InitOperations /\ [][NextOperations]_vars

-----------------------------------------------------------------------------
(* Claims about the operations, under SpecOperations *)

\* RunOperation has returned
Ran == pc = "ret" /\ calls[1].stage = "RunOperation"

\* RunOperation has returned from a call made on a live context
RanLive == Ran /\ entryCtx = "active"

\* the matrix is absent or has zero rows
NoRows(m) == m = Nil \/ Len(m.Data) = 0

\* C11 as stated: RunOperation returns an InvalidInput error and an empty
\* result for every name outside the five operations, and for each of the five
\* when the matrix is absent or has zero rows.
C11_UnknownOrEmptyAlwaysInvalidInput ==
    Ran /\ (operation \notin FiveOperations \/ NoRows(matrix)) =>
        result = EmptyStr /\ ErrorsIs(err, ErrInvalidInput)

\* C11, amended: the same on a context that is live when RunOperation is
\* entered; on a cancelled or expired one the result is empty and the error is
\* the context's.
C11_UnknownOrEmptyInvalidInput ==
    /\ RanLive /\ (operation \notin FiveOperations \/ NoRows(matrix)) =>
           result = EmptyStr /\ ErrorsIs(err, ErrInvalidInput)
    /\ Ran /\ entryCtx # "active" => result = EmptyStr /\ err = CtxErr(entryCtx)

\* an unknown name with a matrix of two rows, refused on a live context
C11_Witness ==
    /\ RanLive
    /\ operation = "divide"
    /\ matrix # Nil
    /\ Len(matrix.Data) = 2
    /\ result = EmptyStr
    /\ ErrorsIs(err, ErrInvalidInput)

\* Decimal numerals, checked digit by digit: a numeral is an optional "-" and
\* decimal digits without a leading zero, and "-0" is none.
IsNumeral(s) ==
    LET ds == IF s # <<>> /\ Head(s) = "-" THEN Tail(s) ELSE s
    IN /\ ds # <<>>
       /\ \A k \in 1..Len(ds) : ds[k] \in DecimalDigits
       /\ Len(ds) > 1 => ds[1] # "0"
       /\ ds = <<"0">> => s = ds

\* the k-th digit from the right of a numeral, with the numeral's sign; 0
\* beyond its length
SignedDigit(s, k) ==
    LET neg == Head(s) = "-"
        ds == IF neg THEN Tail(s) ELSE s
    IN IF k > Len(ds) THEN 0
       ELSE IF neg THEN 0 - DigitVal(ds[Len(ds) - k + 1])
       ELSE DigitVal(ds[Len(ds) - k + 1])

NumeralLen(s) == IF Head(s) = "-" THEN Len(s) - 1 ELSE Len(s)

\* the carry out of the columns D (coefficients of the powers of 10, lowest
\* first, of either sign) entered with the carry c, if every column vanishes
RECURSIVE CarryThrough(_, _)
CarryThrough(D, c) ==
    IF D = <<>> THEN [ok |-> TRUE, carry |-> c]
    ELSE IF (Head(D) + c) % 10 # 0 THEN [ok |-> FALSE, carry |-> 0]
    ELSE CarryThrough(Tail(D), (Head(D) + c) \div 10)

\* the number with the coefficients D and the carry is zero; the columns are
\* taken sixteen at a time
RECURSIVE Vanishes(_, _)
Vanishes(D, carry) ==
    IF Len(D) <= 16
    THEN CarryThrough(D, carry).ok /\ CarryThrough(D, carry).carry = 0
    ELSE /\ CarryThrough(SubSeq(D, 1, 16), carry).ok
         /\ Vanishes(SubSeq(D, 17, Len(D)), CarryThrough(SubSeq(D, 1, 16), carry).carry)

RECURSIVE NativeSum(_)
NativeSum(ns) == IF ns = <<>> THEN 0 ELSE Head(ns) + NativeSum(Tail(ns))

RECURSIVE MaxOf(_)
MaxOf(ns) ==
    IF ns = <<>> THEN 0
    ELSE IF Head(ns) > MaxOf(Tail(ns)) THEN Head(ns) ELSE MaxOf(Tail(ns))

\* the numerals of the elements of a matrix, row by row
Numerals(m) ==
    [i \in 1..Len(m.Data) |-> [j \in 1..Len(m.Data[i]) |-> FormatInt(m.Data[i][j])]]

\* total is the numeral of the sum of the numbers that the numerals in the
\* rows of terms denote: column by column, the digits of the terms less the
\* digit of total vanish
IsSumOf(terms, total) ==
    \E ts \in {terms} :
        \E width \in {MaxOf([i \in 1..Len(ts) |->
                                MaxOf([j \in 1..Len(ts[i]) |-> NumeralLen(ts[i][j])])]
                            \o <<NumeralLen(total)>>)} :
            /\ IsNumeral(total)
            /\ Vanishes([k \in 1..width |->
                           NativeSum([i \in 1..Len(ts) |->
                               NativeSum([j \in 1..Len(ts[i]) |-> SignedDigit(ts[i][j], k)])])
                           - SignedDigit(total, k)], 0)

\* the permutations of 1..n that exchange two places, and all of them for n <= 3
Exchanges(n) ==
    {[k \in 1..n |-> IF k = a THEN b ELSE IF k = b THEN a ELSE k] : a \in 1..n, b \in 1..n}
RowOrders(n) ==
    IF n <= 3 THEN {p \in [1..n -> 1..n] : \A a, b \in 1..n : p[a] = p[b] => a = b}
    ELSE Exchanges(n)

SumRan == RanLive /\ operation = SumOperation /\ ~NoRows(matrix)

\* C12: for every matrix with at least one row, sum returns without error the
\* decimal numeral of the exact sum of all elements, whatever its size, and the
\* result is the same when the rows are taken in another order or the matrix
\* is traversed column by column.
C12_SumIsExact ==
    SumRan =>
        /\ err = Nil
        /\ IsSumOf(Numerals(matrix), result)
        /\ \A p \in RowOrders(Len(matrix.Data)) :
             sum([Data |-> [k \in 1..Len(matrix.Data) |-> matrix.Data[p[k]]]]).result = result
        /\ Len(matrix.Data[1]) > 0 => sum([Data |-> Transposed(matrix.Data)]).result = result

\* a total above the 64-bit range: two rows, two columns, 20 digits
C12_Witness ==
    /\ SumRan
    /\ Len(matrix.Data) = 2
    /\ Len(matrix.Data[1]) = 2
    /\ err = Nil
    /\ Len(result) = 20
    /\ ~InInt64Range(result, FALSE)
    /\ IsSumOf(Numerals(matrix), result)

\* c is the numeral of the product of the numbers that the numerals a and b
\* denote: column by column, the digit products less the digit of c vanish
IsProductOf(a, b, c) ==
    \E width \in {MaxOf(<<NumeralLen(a) + NumeralLen(b), NumeralLen(c)>>)} :
        /\ IsNumeral(c)
        /\ Vanishes([k \in 1..width |->
                       NativeSum([j \in 1..NumeralLen(b) |->
                           IF k >= j THEN SignedDigit(a, k - j + 1) * SignedDigit(b, j) ELSE 0])
                       - SignedDigit(c, k)], 0)

\* the first k elements of a rectangular matrix in row-major order, as a
\* matrix of the same width whose last row may be shorter
FirstElements(data, k) ==
    LET cols == Len(data[1])
        full == (k - 1) \div cols
    IN [i \in 1..(full + 1) |->
          IF i <= full THEN data[i] ELSE SubSeq(data[i], 1, k - full * cols)]

\* the numeral multiply returns for the first k elements
PartialProduct(data, k) == multiply([Data |-> FirstElements(data, k)]).result

\* total is the numeral of the product of the elements of data: every partial
\* product is the one before it times the next element, from 1
IsProductOfAll(data, total) ==
    \E vals \in {RowMajor(data)} :
        /\ \A k \in 1..Len(vals) :
             IsProductOf(IF k = 1 THEN <<"1">> ELSE PartialProduct(data, k - 1),
                         FormatInt(vals[k]), PartialProduct(data, k))
        /\ total = IF vals = <<>> THEN <<"1">> ELSE PartialProduct(data, Len(vals))

\* how many of vals are negative
Negatives(vals) == Cardinality({k \in 1..Len(vals) : vals[k].neg})

MultiplyRan == RanLive /\ operation = MultiplyOperation /\ ~NoRows(matrix)

\* C13: for every matrix with at least one row, multiply returns without
\* error the decimal numeral of the exact product of all elements, whatever
\* its size; with a zero element the result is "0", and otherwise it is
\* negative exactly when the number of negative elements is odd.
C13_ProductIsExact ==
    MultiplyRan =>
        \E vals \in {RowMajor(matrix.Data)} :
            /\ err = Nil
            /\ IsProductOfAll(matrix.Data, result)
            /\ (\E k \in 1..Len(vals) : vals[k] = IntZero) => result = <<"0">>
            /\ (\A k \in 1..Len(vals) : vals[k] # IntZero) =>
                   (Head(result) = "-" <=> Negatives(vals) % 2 = 1)

\* a negative product beyond 64 bits: four elements without a zero, three of
\* them negative, more than 40 digits
C13_Witness ==
    /\ MultiplyRan
    /\ Len(matrix.Data) = 2
    /\ Len(matrix.Data[1]) = 2
    /\ \A k \in 1..4 : RowMajor(matrix.Data)[k] # IntZero
    /\ Negatives(RowMajor(matrix.Data)) = 3
    /\ err = Nil
    /\ Head(result) = "-"
    /\ Len(result) > 40

\* strings.Split(s, sep) for a separator of one character: the pieces of s
\* between the separators, one piece more than there are separators
Split(s, sep) ==
    LET at == {k \in 1..Len(s) : s[k] = sep}
        nth(t) == IF t = 0 THEN 0
                  ELSE IF t > Cardinality(at) THEN Len(s) + 1
                  ELSE CHOOSE k \in at : Cardinality({q \in at : q < k}) = t - 1
    IN [t \in 1..(Cardinality(at) + 1) |-> SubSeq(s, nth(t - 1) + 1, nth(t) - 1)]

\* the text as rows of tokens: lines apart at "\n", tokens apart at ","
Tokens(text) ==
    LET lines == Split(text, "\n")
    IN [i \in 1..Len(lines) |-> Split(lines[i], ",")]

\* the text is rows lines joined by "\n", line i being the cols tokens
\* entry(i, 1), ..., entry(i, cols) joined by ","; the text of no rows is empty
\* and so is the line of no tokens
Renders(text, rows, cols, entry(_, _)) ==
    IF rows = 0 THEN text = EmptyStr
    ELSE \E lines \in {Split(text, "\n")} :
            /\ Len(lines) = rows
            /\ \A i \in 1..rows :
                 IF cols = 0 THEN lines[i] = EmptyStr
                 ELSE /\ Len(Split(lines[i], ",")) = cols
                      /\ \A j \in 1..cols : Split(lines[i], ",")[j] = entry(i, j)

InvertRan == RanLive /\ operation = InvertOperation /\ ~NoRows(matrix)

\* C14: for every rectangular matrix of R >= 1 rows and C columns, invert
\* returns without error C lines of R tokens each, the tokens of a line joined
\* by "," and the lines by "\n" with none after the last, and the token at
\* position i of line j is the numeral of the input element (i, j).
C14_InvertRendersTranspose ==
    InvertRan =>
        /\ err = Nil
        /\ LET entry(j, i) == FormatInt(matrix.Data[i][j])
           IN Renders(result, Len(matrix.Data[1]), Len(matrix.Data), entry)

\* a matrix of 3 rows and 2 columns that differs from its mirror image,
\* returned as 2 lines of 3 tokens
C14_Witness ==
    /\ InvertRan
    /\ Len(matrix.Data) = 3
    /\ Len(matrix.Data[1]) = 2
    /\ matrix.Data[1][2] # matrix.Data[2][1]
    /\ err = Nil
    /\ Len(Tokens(result)) = 2
    /\ Len(Tokens(result)[1]) = 3
    /\ Tokens(result)[2][1] = FormatInt(matrix.Data[1][2])

\* the records of a text as the CSV reader yields them: one per line that is
\* not empty, its fields apart at ","
Records(text) ==
    LET lines == Split(text, "\n")
        kept == {i \in 1..Len(lines) : lines[i] # <<>>}
        nth(t) == CHOOSE i \in kept : Cardinality({q \in kept : q < i}) = t - 1
    IN [t \in 1..Cardinality(kept) |-> Split(lines[nth(t)], ",")]

\* the matrix Validate makes of a text on a live context
Parsed(text) == Validate("active", [Content |-> Records(text)])

\* invert has run on a matrix of 1 to 10 rows and 1 to 10 columns
InvertRanOnMatrix ==
    /\ InvertRan
    /\ Len(matrix.Data) <= maxInputMatrixRows
    /\ Len(matrix.Data[1]) \in 1..maxInputMatrixCols

\* C15: for every rectangular matrix M of 1 to 10 rows and 1 to 10 columns,
\* the text of invert(M) is read back by Validate without error as the
\* transpose of M, and invert of that matrix returns exactly the text of
\* echo(M).
C15_InvertTwiceIsEcho ==
    InvertRanOnMatrix =>
        \E back \in {Parsed(result)} :
            /\ back.err = Nil
            /\ back.matrix = [Data |-> Transposed(matrix.Data)]
            /\ invert(back.matrix).err = Nil
            /\ echo(matrix).err = Nil
            /\ invert(back.matrix).result = echo(matrix).result

\* a matrix of 2 rows and 3 columns that differs from its mirror image, with
\* a negative entry, whose inverted text reads back as 3 rows of 2
C15_Witness ==
    /\ InvertRanOnMatrix
    /\ Len(matrix.Data) = 2
    /\ Len(matrix.Data[1]) = 3
    /\ matrix.Data[1][2] # matrix.Data[2][1]
    /\ matrix.Data[1][2].neg
    /\ Parsed(result).err = Nil
    /\ Len(Parsed(result).matrix.Data) = 3
    /\ invert(Parsed(result).matrix).result = echo(matrix).result

EchoRan == RanLive /\ operation = EchoOperation /\ ~NoRows(matrix)

\* C16: for every matrix with at least one row, echo returns the matrix
\* unchanged and without error: one line per row in the original order, the
\* lines joined by a single "\n" with none after the last, and on each line
\* the numerals of the row's elements in their original order joined by ",".
C16_EchoRendersMatrix ==
    EchoRan =>
        /\ err = Nil
        /\ LET entry(i, j) == FormatInt(matrix.Data[i][j])
           IN Renders(result, Len(matrix.Data), Len(matrix.Data[1]), entry)

\* a matrix of 3 rows and 2 columns returned as 3 lines of 2 tokens, the last
\* character a digit
C16_Witness ==
    /\ EchoRan
    /\ Len(matrix.Data) = 3
    /\ Len(matrix.Data[1]) = 2
    /\ err = Nil
    /\ Len(Tokens(result)) = 3
    /\ Tokens(result)[3] = <<FormatInt(matrix.Data[3][1]), FormatInt(matrix.Data[3][2])>>
    /\ result[Len(result)] \in DecimalDigits

FlattenRan == RanLive /\ operation = FlattenOperation /\ ~NoRows(matrix)

\* C17: for every rectangular matrix with at least one row, flatten returns
\* without error a single line, free of "\n", of exactly rows x cols tokens
\* joined by ",", and the k-th token is the numeral of the k-th element in
\* row-major order.
C17_FlattenRendersRowMajor ==
    FlattenRan =>
        \E vals \in {RowMajor(matrix.Data)} :
            /\ err = Nil
            /\ Len(vals) = Len(matrix.Data) * Len(matrix.Data[1])
            /\ \A k \in 1..Len(result) : result[k] # "\n"
            /\ LET entry(i, k) == FormatInt(vals[k])
               IN Renders(result, 1, Len(vals), entry)

\* a matrix of 2 rows and 3 columns returned as 6 tokens, the fourth being
\* the first element of the second row
C17_Witness ==
    /\ FlattenRan
    /\ Len(matrix.Data) = 2
    /\ Len(matrix.Data[1]) = 3
    /\ err = Nil
    /\ Len(Split(result, ",")) = 6
    /\ Split(result, ",")[4] = FormatInt(matrix.Data[2][1])
    /\ matrix.Data[2][1] # matrix.Data[1][2]

\* IsValidOperation has returned from a call made on a live context
ValidatedLive ==
    pc = "ret" /\ calls[1].stage = "IsValidOperation" /\ entryCtx = "active"

\* C18: on a context that is neither cancelled nor expired, IsValidOperation
\* returns no error for sum, multiply, echo, invert and flatten, and an
\* InvalidInput error for every other name, the empty one included.
C18_ValidExactlyForFive ==
    ValidatedLive =>
        /\ operation \in FiveOperations => err = Nil
        /\ operation \notin FiveOperations => ErrorsIs(err, ErrInvalidInput)

\* the empty name, refused on a live context
C18_Witness ==
    /\ ValidatedLive
    /\ operation = ""
    /\ ErrorsIs(err, ErrInvalidInput)

-----------------------------------------------------------------------------
(* ListOperations called on its own, a first and a second time: SpecList *)

InitList ==
    /\ ctx = "active"
    /\ operation = ""
    /\ filePath = EmptyStr
    /\ pc = "call"
    /\ entryCtx = "none"
    /\ calls = <<>>
    /\ file = Nil
    /\ fileOpens = 0
    /\ rawData = Nil
    /\ matrix = Nil
    /\ result = EmptyStr
    /\ err = Nil
    /\ request = Nil
    /\ response = Nil
    /\ invocations = <<>>
    /\ registry = matrixOperations

\* one call; what it returned is kept with the call
CallListOperations ==
    /\ pc \in {"call", "listed"}
    /\ \E ops \in ListOperations :
         calls' = Append(calls, [stage |-> "ListOperations", ctx |-> ctx, err |-> Nil,
                                 operations |-> ops])
    /\ pc' = IF pc = "call" THEN "listed" ELSE "ret"
    /\ UNCHANGED <<ctx, operation, filePath, entryCtx, file, fileOpens, rawData, matrix,
                   result, err>>
    /\ UNCHANGED <<request, response, invocations, registry>>

NextList == CallListOperations

SpecList == InitList /\ [][NextList]_vars

\* C19: every call of ListOperations returns exactly five names without a
\* duplicate, and the names are sum, multiply, echo, invert and flatten; the
\* order is left open.
C19_ListIsTheFiveNames ==
    \A i \in 1..Len(calls) :
        \E ops \in {calls[i].operations} :
            /\ Len(ops) = 5
            /\ \A a, b \in 1..Len(ops) : ops[a] = ops[b] => a = b
            /\ {ops[k] : k \in 1..Len(ops)} = FiveOperations

\* two calls that returned the names in different orders
C19_Witness ==
    /\ Len(calls) = 2
    /\ calls[1].operations # calls[2].operations
    /\ {calls[1].operations[k] : k \in 1..5} = {calls[2].operations[k] : k \in 1..5}
    /\ Len(calls[2].operations) = 5

-----------------------------------------------------------------------------
(* GetHTTPStatusCode called on its own: SpecErrors draws the error *)

\* errors that wrap nothing: the sentinels, the context's errors, an error of
\* another text, and errors made elsewhere whose text is or holds a
\* sentinel's text
BaseErrors ==
    Sentinels
    \cup {ContextCanceled, ContextDeadlineExceeded, ErrorsNew("errors.New", "unknown error")}
    \cup {ErrorsNew("errors.New", s.msg[1]) : s \in Sentinels}
    \cup {[ErrorsNew("errors.New", "wrapped: ") EXCEPT !.msg = @ \o s.msg] : s \in Sentinels}

\* one layer around e: fmt.Errorf("layer: %w", e) wraps e, and
\* fmt.Errorf("layer: %v", e) only prints it
Layer(verb, e) ==
    [at |-> "fmt.Errorf", msg |-> <<"layer: ">> \o e.msg, nums |-> <<>>, str |-> "",
     cause |-> IF verb = "%w" THEN e ELSE Nil]

\* the error with the layers verbs around base, the last verb outermost
RECURSIVE Layered(_, _)
Layered(base, verbs) ==
    IF verbs = <<>> THEN base
    ELSE Layer(verbs[Len(verbs)], Layered(base, SubSeq(verbs, 1, Len(verbs) - 1)))

LayerVerbs == UNION {[1..n -> {"%w", "%v"}] : n \in 0..MaxWrapLayers}

InitErrors ==
    /\ err \in {Nil} \cup {Layered(base, verbs) : base \in BaseErrors, verbs \in LayerVerbs}
    /\ ctx = "active"
    /\ operation = ""
    /\ filePath = EmptyStr
    /\ pc = "call"
    /\ entryCtx = "none"
    /\ calls = <<>>
    /\ file = Nil
    /\ fileOpens = 0
    /\ rawData = Nil
    /\ matrix = Nil
    /\ result = EmptyStr
    /\ request = Nil
    /\ response = Nil
    /\ invocations = <<>>
    /\ registry = matrixOperations

\* one call; the code it returned is kept with the call
CallGetHTTPStatusCode ==
    /\ pc = "call"
    /\ calls' = Append(calls, [stage |-> "GetHTTPStatusCode", ctx |-> ctx, err |-> err,
                               code |-> GetHTTPStatusCode(err)])
    /\ pc' = "ret"
    /\ UNCHANGED <<ctx, operation, filePath, entryCtx, file, fileOpens, rawData, matrix,
                   result, err>>
    /\ UNCHANGED <<request, response, invocations, registry>>

NextErrors == CallGetHTTPStatusCode

SpecErrors == InitErrors /\ [][NextErrors]_vars

\* the code of a sentinel
CodeOf(s) ==
    CASE s = ErrInvalidInput -> 400
      [] s = ErrNotFound -> 404
      [] s = ErrPayloadTooLarge -> 413
      [] s = ErrUnprocessableEntity -> 422

\* C20: GetHTTPStatusCode returns 200 for the nil error; for a sentinel, bare
\* or under any number of layers that all wrap with %w, the sentinel's code
\* (400, 404, 413, 422); and 500 for every other error, among them an error
\* whose message holds a sentinel's text but which does not wrap the sentinel.
C20_StatusFollowsWrappedSentinel ==
    pc = "ret" =>
        /\ err = Nil => calls[1].code = 200
        /\ \A base \in BaseErrors, verbs \in LayerVerbs :
             err = Layered(base, verbs) =>
                 calls[1].code =
                     IF base \in Sentinels /\ \A k \in 1..Len(verbs) : verbs[k] = "%w"
                     THEN CodeOf(base) ELSE 500

\* NotFound under two wrapping layers, answered 404
C20_Witness ==
    /\ pc = "ret"
    /\ err = Layered(ErrNotFound, <<"%w", "%w">>)
    /\ calls[1].code = 404

-----------------------------------------------------------------------------
(* domain/matrix.go as one call, and handler/matrix.go: SpecHandlers *)

\* what ctx.Err() may answer at the entry of ProcessMatrix and at the entry of
\* each of its five stages: once cancelled or expired, a context stays so
CtxRuns ==
    {[k \in 1..(Len(Stages) + 1) |-> IF k < n THEN "active" ELSE c] :
        n \in 1..(Len(Stages) + 2), c \in {"canceled", "deadline"}}

\* matrixDomain.ProcessMatrix on the file f, cs[1] being the context's answer
\* at entry and cs[k + 1] its answer in stage k; [opened] tells whether the
\* file was opened
DomainProcessMatrix(cs, op, path, f) ==
    IF EntryCheck(cs[1], op) # Nil
    THEN FailWith(EntryCheck(cs[1], op)) @@ [opened |-> FALSE]
    ELSE IF ValidateFilePath(cs[2], path) # Nil
    THEN FailWith(ValidateFilePath(cs[2], path)) @@ [opened |-> FALSE]
    ELSE IF IsValidOperation(cs[3], op) # Nil
    THEN FailWith(IsValidOperation(cs[3], op)) @@ [opened |-> FALSE]
    ELSE LET raw == GetFileContent(cs[4], f)
         IN IF raw.err # Nil THEN FailWith(raw.err) @@ [opened |-> raw.opened]
            ELSE LET m == Validate(cs[5], raw.content)
                 IN IF m.err # Nil THEN FailWith(m.err) @@ [opened |-> TRUE]
                    ELSE LET r == RunOperation(cs[6], m.matrix, op)
                         IN IF r.err # Nil THEN FailWith(r.err) @@ [opened |-> TRUE]
                            ELSE [result |-> r.result, err |-> Nil, opened |-> TRUE]

\* the text ListMatrixOperations puts before the names
LostText == <<"Are you lost? Try using this sample URL ... Other available operations: ">>

RECURSIVE JoinNames(_, _)
JoinNames(names, i) ==
    IF i > Len(names) THEN <<>>
    ELSE (IF i > 1 THEN <<",">> ELSE <<>>) \o <<names[i]>> \o JoinNames(names, i + 1)

\* matrixDomain.ListMatrixOperations, the operations listed in the order ops
DomainListMatrixOperations(ops) == [result |-> LostText \o JoinNames(ops, 1), err |-> Nil]

StatusMethodNotAllowed == 405
StatusGatewayTimeout == 504

MethodGet == "GET"

\* a method check that lets HEAD through with GET
MethodIsGetOrHead(method) == method \in {MethodGet, "HEAD"}

\* r.Method != http.MethodGet fails
MethodIsGet(method) == method = MethodGet

\* r.Method of the requests served
Methods == {MethodGet, "POST", "PUT", "DELETE", "HEAD", "PATCH", "OPTIONS", "get"}

Handlers == {"ListMatrixOperations", "ProcessMatrix", "HealthCheck"}

\* err.Error(), as the pieces of the message
RECURSIVE NumsText(_)
NumsText(nums) == IF nums = <<>> THEN <<>> ELSE FewDigits(Head(nums)) \o NumsText(Tail(nums))

ErrorText(e) == e.msg \o NumsText(e.nums) \o (IF e.str = "" THEN <<>> ELSE <<e.str>>)

\* a ResponseWriter nothing was written to
NoResponse == [status |-> 0, contentType |-> "", body |-> <<>>]

\* http.Error(w, text, code): headers, WriteHeader(code), then the text and a
\* newline
HttpError(text, code) ==
    [status |-> code, contentType |-> "text/plain; charset=utf-8", body |-> text \o <<"\n">>]

\* w.Header().Set("Content-Type", "text/plain"); w.WriteHeader(200); w.Write(body)
WriteOK(body) == [status |-> StatusOK, contentType |-> "text/plain", body |-> body]

MethodNotAllowed == HttpError(<<"method not allowed">>, StatusMethodNotAllowed)

\* the error branch of the ProcessMatrix handler with the context's errors
\* handed to the status mapping like any other
ProcessMatrixFailedAllMapped(e) == HttpError(ErrorText(e), GetHTTPStatusCode(e))

\* the error branch of the ProcessMatrix handler
ProcessMatrixFailed(e) ==
    IF ErrorsIs(e, ContextCanceled) THEN NoResponse
    ELSE IF ErrorsIs(e, ContextDeadlineExceeded)
    THEN HttpError(<<"request timeout">>, StatusGatewayTimeout)
    ELSE HttpError(ErrorText(e), GetHTTPStatusCode(e))

\* operations and paths of the requests to /matrix/
RequestOperations == {SumOperation, InvertOperation, "", "divide"}
RequestPaths ==
    {TestdataDir \o <<"m">> \o CsvExt, <<".", ".", "/">> \o <<"m">> \o CsvExt,
     TestdataDir \o <<"m">>, <<>>}

InitHandlers ==
    /\ request \in [handler : Handlers, method : Methods]
    /\ operation \in RequestOperations
    /\ filePath \in RequestPaths
    /\ request.handler # "ProcessMatrix" =>
           operation = SumOperation /\ filePath = TestdataDir \o <<"m">> \o CsvExt
    /\ response = NoResponse
    /\ ctx = "active"
    /\ pc = "serve"
    /\ entryCtx = "none"
    /\ calls = <<>>
    /\ file = Nil
    /\ fileOpens = 0
    /\ rawData = Nil
    /\ matrix = Nil
    /\ result = EmptyStr
    /\ err = Nil
    /\ invocations = <<>>
    /\ registry = matrixOperations

HandlerListMatrixOperations ==
    /\ pc = "serve"
    /\ request.handler = "ListMatrixOperations"
    /\ pc' = "ret"
    /\ IF ~MethodIsGet(request.method)
       THEN /\ response' = MethodNotAllowed
            /\ UNCHANGED <<calls, result, err>>
       ELSE \E ops \in ListOperations :
              LET r == DomainListMatrixOperations(ops)
              IN /\ calls' = Invoked("matrixDomain.ListMatrixOperations", r.err)
                 /\ result' = r.result
                 /\ err' = r.err
                 /\ response' = IF r.err # Nil
                                THEN HttpError(ErrorText(r.err), GetHTTPStatusCode(r.err))
                                ELSE WriteOK(r.result)
    /\ UNCHANGED <<ctx, operation, filePath, entryCtx, file, fileOpens, rawData, matrix,
                   request, invocations, registry>>

\* the request's context is cancelled, or expires, at any point of the domain
\* call or not at all
HandlerProcessMatrix ==
    /\ pc = "serve"
    /\ request.handler = "ProcessMatrix"
    /\ pc' = "ret"
    /\ IF ~MethodIsGet(request.method)
       THEN /\ response' = MethodNotAllowed
            /\ UNCHANGED <<ctx, entryCtx, calls, file, fileOpens, result, err>>
       ELSE \E cs \in CtxRuns, f \in Files :
              LET r == DomainProcessMatrix(cs, operation, filePath, f)
              IN /\ entryCtx' = cs[1]
                 /\ ctx' = cs[Len(cs)]
                 /\ calls' = Invoked("matrixDomain.ProcessMatrix", r.err)
                 /\ file' = IF r.opened THEN f ELSE file
                 /\ fileOpens' = IF r.opened THEN fileOpens + 1 ELSE fileOpens
                 /\ result' = r.result
                 /\ err' = r.err
                 /\ response' = IF r.err # Nil THEN ProcessMatrixFailed(r.err)
                                ELSE WriteOK(r.result)
    /\ UNCHANGED <<operation, filePath, rawData, matrix, request, invocations, registry>>

HandlerHealthCheck ==
    /\ pc = "serve"
    /\ request.handler = "HealthCheck"
    /\ pc' = "ret"
    /\ response' = IF ~MethodIsGet(request.method) THEN MethodNotAllowed
                   ELSE WriteOK(<<"O", "K">>)
    /\ UNCHANGED <<ctx, operation, filePath, entryCtx, calls, file, fileOpens, rawData,
                   matrix, result, err, request, invocations, registry>>

NextHandlers == HandlerListMatrixOperations \/ HandlerProcessMatrix \/ HandlerHealthCheck

SpecHandlers == InitHandlers /\ [][NextHandlers]_vars

-----------------------------------------------------------------------------
(* Claims about the handlers, under SpecHandlers *)

\* the ProcessMatrix handler returned after its domain call failed
ProcessMatrixServed ==
    /\ pc = "ret"
    /\ request.handler = "ProcessMatrix"
    /\ Len(calls) = 1

TaxonomyCodes == {400, 404, 413, 422, 500}

\* C21: when the domain call of the ProcessMatrix handler fails with the
\* context's cancellation the handler writes nothing (no status, no header, no
\* body); when it fails with the context's deadline the handler answers 504
\* with the line "request timeout" (http.Error ends the body with a newline);
\* in neither case is the status one of 400, 404, 413, 422, 500.
C21_ContextErrorsNotMapped ==
    ProcessMatrixServed =>
        /\ err = ContextCanceled =>
               response.status = 0 /\ response.body = <<>> /\ response.contentType = ""
        /\ err = ContextDeadlineExceeded =>
               response.status = 504 /\ response.body = <<"request timeout", "\n">>
        /\ err \in {ContextCanceled, ContextDeadlineExceeded} =>
               response.status \notin TaxonomyCodes

\* the deadline passed while the file was being validated, answered 504
C21_Witness ==
    /\ ProcessMatrixServed
    /\ err = ContextDeadlineExceeded
    /\ entryCtx = "active"
    /\ fileOpens = 1
    /\ response.status = 504

\* C24: each of the three handlers answers a request whose method is not GET
\* with 405 and the line "method not allowed" (http.Error ends the body with a
\* newline), and makes no call to the domain, so no file is opened.
C24_OnlyGetIsServed ==
    (pc = "ret" /\ request.method # "GET") =>
        /\ response.status = 405
        /\ response.body = <<"method not allowed", "\n">>
        /\ calls = <<>>
        /\ fileOpens = 0
        /\ file = Nil

\* a HEAD request to the ProcessMatrix handler, answered 405
C24_Witness ==
    /\ pc = "ret"
    /\ request = [handler |-> "ProcessMatrix", method |-> "HEAD"]
    /\ response.status = 405
    /\ calls = <<>>

-----------------------------------------------------------------------------
(* GetFileContent called on its own: SpecContent draws the context and the
   file the path resolves to *)

\* sizes file.Stat may report, around the maximum
FileSizes == {0, 1, 64, maxFileSizeBytes - 1, maxFileSizeBytes, maxFileSizeBytes + 1,
              2 * maxFileSizeBytes}

\* what a path may resolve to: no file, a file whose Stat fails, and files of
\* every size that are no CSV or hold the sample rows
ContentFiles ==
    {FileOf(FALSE, FALSE, 0, FALSE, <<>>), FileOf(TRUE, FALSE, 0, FALSE, <<>>)}
    \cup {FileOf(TRUE, TRUE, size, FALSE, <<>>) : size \in FileSizes \ {0}}
    \cup {FileOf(TRUE, TRUE, size, TRUE, rows) :
             size \in FileSizes \ {0, 1}, rows \in SampleRows \ {<<>>}}
    \cup {FileOf(TRUE, TRUE, size, TRUE, <<>>) : size \in FileSizes}

InitContent ==
    /\ ctx \in CtxStates
    /\ filePath \in RequestPaths
    /\ operation = ""
    /\ pc = "call"
    /\ entryCtx = "none"
    /\ calls = <<>>
    /\ file = Nil
    /\ fileOpens = 0
    /\ rawData = Nil
    /\ matrix = Nil
    /\ result = EmptyStr
    /\ err = Nil
    /\ request = Nil
    /\ response = Nil
    /\ invocations = <<>>
    /\ registry = matrixOperations

\* one call; [file] keeps the file the path resolved to, and the call's entry
\* tells whether the file was opened and whether it was read
CallGetFileContent ==
    /\ pc = "call"
    /\ \E f \in ContentFiles :
         LET r == GetFileContent(ctx, f)
         IN /\ calls' = Append(calls, [stage |-> "GetFileContent", ctx |-> ctx, err |-> r.err,
                                       opened |-> r.opened, read |-> r.read])
            /\ file' = f
            /\ fileOpens' = IF r.opened THEN fileOpens + 1 ELSE fileOpens
            /\ rawData' = r.content
            /\ err' = r.err
    /\ entryCtx' = ctx
    /\ pc' = "ret"
    /\ UNCHANGED <<ctx, operation, filePath, matrix, result, request, response, invocations,
                   registry>>

\* the matrix validator called on what GetFileContent returned
CallValidateContent ==
    /\ pc = "ret"
    /\ err = Nil
    /\ LET r == Validate(ctx, rawData)
       IN /\ calls' = Invoked("Validate", r.err)
          /\ matrix' = r.matrix
          /\ err' = r.err
    /\ pc' = "validated"
    /\ UNCHANGED <<ctx, operation, filePath, entryCtx, file, fileOpens, rawData, result,
                   request, response, invocations, registry>>

NextContent == CallGetFileContent \/ CallValidateContent

SpecContent == InitContent /\ [][NextContent]_vars

-----------------------------------------------------------------------------
(* Claims about GetFileContent, under SpecContent *)

\* GetFileContent returned, the context having been live
ContentReturnedLive == pc = "ret" /\ entryCtx = "active"

\* the path resolved to a file that opened and whose Stat succeeded
Stated == file.exists /\ file.statOk

\* C22: on a live context a file of more than 1024 bytes fails with
\* PayloadTooLarge without being read, a path that cannot be opened fails with
\* NotFound, every failure returns nil content, and a file of 1024 bytes or
\* fewer is never turned away for its size: it is read, and it is returned
\* exactly when its bytes parse as CSV records of one length (it fails with
\* UnprocessableEntity otherwise).
C22_SizeLimit ==
    ContentReturnedLive =>
        /\ (Stated /\ file.size > 1024) =>
               ErrorsIs(err, ErrPayloadTooLarge) /\ ~calls[1].read
        /\ ~file.exists => ErrorsIs(err, ErrNotFound)
        /\ err # Nil => rawData = Nil
        /\ (Stated /\ file.size <= 1024) =>
               /\ ~ErrorsIs(err, ErrPayloadTooLarge)
               /\ calls[1].read
               /\ LET even == \A i \in 1..Len(file.rows) : Len(file.rows[i]) = Len(file.rows[1])
                  IN IF file.syntaxOk /\ even
                     THEN err = Nil /\ rawData = [Content |-> file.rows]
                     ELSE ErrorsIs(err, ErrUnprocessableEntity)

\* a file of exactly 1024 bytes returned with its rows
C22_Witness ==
    /\ ContentReturnedLive
    /\ Stated
    /\ file.size = 1024
    /\ err = Nil
    /\ rawData # Nil
    /\ Len(rawData.Content) = 2

\* the rows the file holds are of uneven lengths
UnevenRows(f) == \E i \in 1..Len(f.rows) : Len(f.rows[i]) # Len(f.rows[1])

\* the file opened, is within the size limit and its bytes are CSV records
ReadableWithinLimit(f) == f.exists /\ f.statOk /\ f.size <= 1024 /\ f.syntaxOk

\* C23: on a live context, for a readable file within the size limit whose
\* rows have uneven lengths or hold a field that is no integer, GetFileContent
\* returns the rows as they are in the file and a nil error, and the matrix
\* validator called on them returns UnprocessableEntity.
C23_ShapeLeftToValidator ==
    (/\ pc \in {"ret", "validated"}
     /\ entryCtx = "active"
     /\ ctx = "active"
     /\ ReadableWithinLimit(file)
     /\ UnevenRows(file) \/ SomeFieldNotInteger([Content |-> file.rows])) =>
        /\ rawData = [Content |-> file.rows]
        /\ calls[1].err = Nil
        /\ pc = "validated" => ErrorsIs(err, ErrUnprocessableEntity)

-----------------------------------------------------------------------------
(* ProcessMatrix calls running at once: SpecConcurrent. Each call has its own
   context, arguments and local variables in [invocations]; the calls share
   the registry and the files. A step of the specification is one stage of
   one call, or the cancellation or expiry of one call's context. *)

Invocations == 1..MaxInvocations

\* the arguments of the concurrent calls
ConcurrentArguments ==
    {[operation |-> SumOperation, filePath |-> TestdataDir \o <<"m">> \o CsvExt],
     [operation |-> "divide", filePath |-> TestdataDir \o <<"m">> \o CsvExt],
     [operation |-> SumOperation, filePath |-> <<".", ".", "/">> \o <<"m">> \o CsvExt]}

\* the files the paths of the concurrent calls may resolve to
ConcurrentFiles ==
    {FileOf(FALSE, FALSE, 0, FALSE, <<>>),
     FileOf(TRUE, TRUE, 64, TRUE, << <<F1, F2>>, <<F3, F4>> >>),
     FileOf(TRUE, TRUE, 64, TRUE, << <<F1, <<"a">>>> >>)}

\* the locals of a call that has not started
Started(args) ==
    [ctx |-> "active", operation |-> args.operation, filePath |-> args.filePath,
     pc |-> "start", seen |-> <<>>, file |-> Nil, rawData |-> Nil, matrix |-> Nil,
     result |-> EmptyStr, err |-> Nil]

InitConcurrent ==
    /\ invocations \in [Invocations -> {Started(args) : args \in ConcurrentArguments}]
    /\ registry = matrixOperations
    /\ ctx = "active"
    /\ operation = ""
    /\ filePath = EmptyStr
    /\ pc = "concurrent"
    /\ entryCtx = "none"
    /\ calls = <<>>
    /\ file = Nil
    /\ fileOpens = 0
    /\ rawData = Nil
    /\ matrix = Nil
    /\ result = EmptyStr
    /\ err = Nil
    /\ request = Nil
    /\ response = Nil

\* call p goes on with the locals in [changed] replaced, having looked at its
\* context once more
Goes(p, changed) ==
    invocations' = [invocations EXCEPT ![p] =
                       changed @@ [seen |-> Append(@.seen, @.ctx)] @@ @]

\* `if err != nil { return "", err }`, or on to the next statement
Returned(e, next) ==
    IF e # Nil THEN [pc |-> "done", result |-> FailWith(e).result, err |-> FailWith(e).err]
    ELSE [pc |-> next]

\* the content the Validate stage of any call is handed: the one read last,
\* by whichever call
ContentReadLast(p) == rawData

\* the content the Validate stage of call p is handed: its own local rawData
ContentOf(p) == invocations[p].rawData

ConcurrentCancel(p) ==
    /\ invocations[p].pc # "done"
    /\ invocations[p].ctx = "active"
    /\ invocations' = [invocations EXCEPT ![p].ctx = "canceled"]
    /\ UNCHANGED rawData

ConcurrentDeadlineExpires(p) ==
    /\ invocations[p].pc # "done"
    /\ invocations[p].ctx = "active"
    /\ invocations' = [invocations EXCEPT ![p].ctx = "deadline"]
    /\ UNCHANGED rawData

ConcurrentEnter(p) ==
    /\ invocations[p].pc = "start"
    /\ Goes(p, Returned(EntryCheck(invocations[p].ctx, invocations[p].operation), Stages[1]))
    /\ UNCHANGED rawData

ConcurrentValidateFilePath(p) ==
    /\ invocations[p].pc = "ValidateFilePath"
    /\ Goes(p, Returned(ValidateFilePath(invocations[p].ctx, invocations[p].filePath),
                        AfterStage("ValidateFilePath")))
    /\ UNCHANGED rawData

ConcurrentIsValidOperation(p) ==
    /\ invocations[p].pc = "IsValidOperation"
    /\ Goes(p, Returned(IsValidOperationIn(registry, invocations[p].ctx,
                                           invocations[p].operation),
                        AfterStage("IsValidOperation")))
    /\ UNCHANGED rawData

\* [rawData] keeps the content the latest GetFileContent of any call returned
ConcurrentGetFileContent(p) ==
    /\ invocations[p].pc = "GetFileContent"
    /\ \E f \in ConcurrentFiles :
         LET r == GetFileContent(invocations[p].ctx, f)
         IN /\ Goes(p, Returned(r.err, AfterStage("GetFileContent"))
                       @@ [rawData |-> r.content, file |-> IF r.opened THEN f ELSE Nil])
            /\ rawData' = r.content

ConcurrentValidate(p) ==
    /\ invocations[p].pc = "Validate"
    /\ LET r == Validate(invocations[p].ctx, ContentOf(p))
       IN Goes(p, Returned(r.err, AfterStage("Validate")) @@ [matrix |-> r.matrix])
    /\ UNCHANGED rawData

ConcurrentRunOperation(p) ==
    /\ invocations[p].pc = "RunOperation"
    /\ LET r == RunOperation(invocations[p].ctx, invocations[p].matrix, invocations[p].operation)
       IN Goes(p, IF r.err # Nil THEN Returned(r.err, "done")
                  ELSE [pc |-> AfterStage("RunOperation"), result |-> r.result, err |-> Nil])
    /\ UNCHANGED rawData

NextConcurrent ==
    /\ \E p \in Invocations :
         \/ ConcurrentCancel(p)
         \/ ConcurrentDeadlineExpires(p)
         \/ ConcurrentEnter(p)
         \/ ConcurrentValidateFilePath(p)
         \/ ConcurrentIsValidOperation(p)
         \/ ConcurrentGetFileContent(p)
         \/ ConcurrentValidate(p)
         \/ ConcurrentRunOperation(p)
    /\ UNCHANGED <<ctx, operation, filePath, pc, entryCtx, calls, file, fileOpens, matrix,
                   result, err, request, response, registry>>

SpecConcurrent == InitConcurrent /\ [][NextConcurrent]_vars

-----------------------------------------------------------------------------
(* Claims about concurrent calls, under SpecConcurrent *)

\* what a call's context answered at entry and in each stage, the answers
\* of stages the call did not reach being of no account
SeenAll(seen) ==
    [k \in 1..(Len(Stages) + 1) |-> IF k <= Len(seen) THEN seen[k] ELSE seen[Len(seen)]]

\* the outcome the call with these locals has when it runs alone on the same
\* arguments, the same file and the same answers of its context
Alone(inv) ==
    LET f == IF inv.file = Nil THEN FileOf(FALSE, FALSE, 0, FALSE, <<>>) ELSE inv.file
    IN DomainProcessMatrix(SeenAll(inv.seen), inv.operation, inv.filePath, f)

\* C25: with several ProcessMatrix calls running at once, in every
\* interleaving of their stages and of the cancellations of their contexts,
\* the registry stays what it was initialised to, and each call that has
\* returned has the result and the error it has when run alone on the same
\* operation, path, file and answers of its context.
C25_CallsDoNotInterfere ==
    /\ registry = matrixOperations
    /\ \A p \in Invocations :
         invocations[p].pc = "done" =>
             /\ invocations[p].result = Alone(invocations[p]).result
             /\ invocations[p].err = Alone(invocations[p]).err

\* the first call returned the sum of its file while the second, which read
\* another file after the first read its own, has yet to validate it
C25_Witness ==
    /\ invocations[1].pc = "done"
    /\ invocations[1].result = <<"1", "0">>
    /\ invocations[1].err = Nil
    /\ invocations[2].pc = "Validate"
    /\ rawData = invocations[2].rawData
    /\ rawData # invocations[1].rawData

-----------------------------------------------------------------------------
(* Claims about the order of the path checks, under Spec *)

\* err.Error() of the error the path p is turned away with, when the checks
\* are made in the order empty, "..", directory, extension; <<>> when all pass
FirstFailedCheck(p) ==
    IF Len(p) = 0 THEN <<"invalid input", "file parameter is required">>
    ELSE IF ~NoDotDot(p) THEN <<"invalid input", "path traversal not allowed">>
    ELSE IF ~StartsWithTestdata(p) THEN <<"invalid input", "only files in testdata/ are allowed">>
    ELSE IF ~EndsWithCsv(p) THEN <<"invalid input", "only .csv files are supported">>
    ELSE <<>>

\* err.Error() of what a call returned, <<>> for nil
Message(e) == IF e = Nil THEN <<>> ELSE ErrorText(e)

\* C26 as stated: whatever its context, every call of ValidateFilePath
\* reports the first failing check in the order empty, "..", directory,
\* extension, so a path always yields the same message.
C26_PathAlwaysSameMessage ==
    \A i \in 1..Len(calls) :
        calls[i].stage = "ValidateFilePath" =>
            Message(calls[i].err) = FirstFailedCheck(filePath)

\* C26: on a context that is neither cancelled nor expired, ValidateFilePath
\* reports the first failing check in the order empty, "..", directory,
\* extension: a path that holds ".." is reported as "invalid input: path
\* traversal not allowed" even when its directory or extension is wrong too,
\* and a path always yields the same message; on a cancelled or expired
\* context the call returns the context's error whatever the path.
C26_FirstFailedCheckReported ==
    \A i \in 1..Len(calls) :
        calls[i].stage = "ValidateFilePath" =>
            IF calls[i].ctx = "active"
            THEN Message(calls[i].err) = FirstFailedCheck(filePath)
            ELSE calls[i].err = CtxErr(calls[i].ctx)

\* "../m.csv" on a live context, turned away for the traversal
C26_Witness ==
    /\ filePath = <<".", ".", "/", "m", ".", "c", "s", "v">>
    /\ Len(calls) = 1
    /\ calls[1].stage = "ValidateFilePath"
    /\ calls[1].ctx = "active"
    /\ Message(calls[1].err) = <<"invalid input", "path traversal not allowed">>

-----------------------------------------------------------------------------
(* Every function that returns a value and an error, called once:
   SpecOutcomes draws the arguments of all of them *)

OutcomeMatrices ==
    {Nil, [Data |-> <<>>], [Data |-> << <<>> >>], [Data |-> << <<Int64Of(7)>> >>],
     [Data |-> << <<Int64Of(1), Int64Of(-2)>>, <<Int64Of(3), MaxInt64>> >>]}

InitOutcomes ==
    /\ ctx \in CtxStates
    /\ operation \in OperationNames
    /\ filePath \in RequestPaths
    /\ matrix \in OutcomeMatrices
    /\ rawData \in {Nil} \cup {[Content |-> rows] : rows \in SampleRows}
    /\ pc = "call"
    /\ entryCtx = "none"
    /\ calls = <<>>
    /\ file = Nil
    /\ fileOpens = 0
    /\ result = EmptyStr
    /\ err = Nil
    /\ request = Nil
    /\ response = Nil
    /\ invocations = <<>>
    /\ registry = matrixOperations

\* matrixDomain.ProcessMatrix, its context ending at any point or not at all
CallProcessMatrix ==
    /\ pc = "call"
    /\ \E cs \in CtxRuns, f \in Files :
         /\ cs[1] = ctx
         /\ LET r == DomainProcessMatrix(cs, operation, filePath, f)
            IN /\ result' = r.result
               /\ err' = r.err
               /\ calls' = Invoked("ProcessMatrix", r.err)
               /\ file' = IF r.opened THEN f ELSE file
               /\ fileOpens' = IF r.opened THEN fileOpens + 1 ELSE fileOpens
         /\ ctx' = cs[Len(cs)]
    /\ entryCtx' = ctx
    /\ pc' = "ret"
    /\ UNCHANGED <<operation, filePath, rawData, matrix, request, response, invocations,
                   registry>>

\* one of sum, multiply, echo, invert, flatten called as a method
CallOperation ==
    /\ pc = "call"
    /\ \E op \in {SumOperation, MultiplyOperation, EchoOperation, InvertOperation,
                  FlattenOperation} :
         LET r == CASE op = SumOperation -> sum(matrix)
                    [] op = MultiplyOperation -> multiply(matrix)
                    [] op = EchoOperation -> echo(matrix)
                    [] op = InvertOperation -> invert(matrix)
                    [] op = FlattenOperation -> flatten(matrix)
         IN /\ result' = r.result
            /\ err' = r.err
            /\ calls' = Invoked(op, r.err)
    /\ entryCtx' = ctx
    /\ pc' = "ret"
    /\ UNCHANGED <<ctx, operation, filePath, file, fileOpens, rawData, matrix, request,
                   response, invocations, registry>>

NextOutcomes ==
    \/ CallProcessMatrix
    \/ CallRunOperation
    \/ CallOperation
    \/ CallValidate
    \/ CallGetFileContent

SpecOutcomes == InitOutcomes /\ [][NextOutcomes]_vars

\* C27: a call of ProcessMatrix, of RunOperation or of one of the five
\* operations that returns an error returns the empty string with it; a call
\* of Validate or of GetFileContent returns either an error and a nil matrix
\* or content, or a nil error and a matrix or content that is not nil.
C27_ResultOrError ==
    pc = "ret" =>
        /\ calls[1].stage \in {"ProcessMatrix", "RunOperation"} \cup FiveOperations =>
               (err # Nil => result = <<>>)
        /\ calls[1].stage = "Validate" => (err # Nil <=> matrix = Nil)
        /\ calls[1].stage = "GetFileContent" => (err # Nil <=> rawData = Nil)

\* Validate turned content with a field that is no number away, with no matrix
C27_Witness ==
    /\ pc = "ret"
    /\ calls[1].stage = "Validate"
    /\ entryCtx = "active"
    /\ rawData # Nil
    /\ Len(rawData.Content) = 1
    /\ ErrorsIs(err, ErrUnprocessableEntity)
    /\ matrix = Nil

-----------------------------------------------------------------------------
(* ListOperations, IsValidOperation and RunOperation called in turn on one
   name: SpecAgree *)

\* names asked about: the five, and names that differ from them by case, by a
\* blank or altogether
AgreeNames == OperationNames \cup {"Sum", "sum ", " echo", "transpose", "inverse"}

\* matrices of at least one row
AgreeMatrices == {m \in OutcomeMatrices : ~EmptyMatrix(m)}

InitAgree ==
    /\ ctx \in CtxStates
    /\ operation \in AgreeNames
    /\ matrix \in AgreeMatrices
    /\ filePath = EmptyStr
    /\ pc = "call"
    /\ entryCtx = "none"
    /\ calls = <<>>
    /\ file = Nil
    /\ fileOpens = 0
    /\ rawData = Nil
    /\ result = EmptyStr
    /\ err = Nil
    /\ request = Nil
    /\ response = Nil
    /\ invocations = <<>>
    /\ registry = matrixOperations

AgreeListOperations ==
    /\ pc = "call"
    /\ \E ops \in ListOperations :
         calls' = Append(calls, [stage |-> "ListOperations", ctx |-> ctx, err |-> Nil,
                                 operations |-> ops])
    /\ entryCtx' = ctx
    /\ pc' = "listed"
    /\ UNCHANGED <<ctx, operation, filePath, file, fileOpens, rawData, matrix, result, err,
                   request, response, invocations, registry>>

AgreeIsValidOperation ==
    /\ pc = "listed"
    /\ calls' = Invoked("IsValidOperation", IsValidOperation(ctx, operation))
    /\ err' = IsValidOperation(ctx, operation)
    /\ pc' = "validated"
    /\ UNCHANGED <<ctx, operation, filePath, entryCtx, file, fileOpens, rawData, matrix,
                   result, request, response, invocations, registry>>

AgreeRunOperation ==
    /\ pc = "validated"
    /\ LET r == RunOperation(ctx, matrix, operation)
       IN /\ calls' = Invoked("RunOperation", r.err)
          /\ result' = r.result
          /\ err' = r.err
    /\ pc' = "ret"
    /\ UNCHANGED <<ctx, operation, filePath, entryCtx, file, fileOpens, rawData, matrix,
                   request, response, invocations, registry>>

NextAgree == AgreeListOperations \/ AgreeIsValidOperation \/ AgreeRunOperation

SpecAgree == InitAgree /\ [][NextAgree]_vars

\* the name is among those ListOperations returned
Listed == \E k \in 1..Len(calls[1].operations) : calls[1].operations[k] = operation

\* IsValidOperation returned no error
Accepted == calls[2].err = Nil

\* RunOperation returned the unsupported-operation error
Unsupported ==
    /\ calls[3].err # Nil
    /\ calls[3].err.msg = <<"invalid input", "unsupported operation">>
    /\ calls[3].err.str = operation

\* C28 as stated: for every name and whatever the context, the name is
\* accepted by IsValidOperation exactly when it is among the names
\* ListOperations returns, and exactly when RunOperation on a matrix of at
\* least one row does not return the unsupported-operation error.
C28_RegistryAndDispatchAlwaysAgree ==
    pc = "ret" => (Accepted <=> Listed) /\ (Accepted <=> ~Unsupported)

\* C28: on a context that is neither cancelled nor expired, a name is accepted
\* by IsValidOperation exactly when it is among the names ListOperations
\* returns, and exactly when RunOperation on a matrix of at least one row runs
\* one of the five operations (and returns its result with no error) instead
\* of returning the unsupported-operation error; on a cancelled or expired
\* context both return the context's error for every name.
C28_RegistryAndDispatchAgree ==
    pc = "ret" =>
        IF entryCtx = "active"
        THEN /\ Accepted <=> Listed
             /\ Accepted <=> ~Unsupported
             /\ Accepted <=> calls[3].err = Nil
        ELSE calls[2].err = CtxErr(entryCtx) /\ calls[3].err = CtxErr(entryCtx)

\* "Sum" on a live context: not listed, not accepted, not dispatched
C28_Witness ==
    /\ pc = "ret"
    /\ entryCtx = "active"
    /\ operation = "Sum"
    /\ ~Listed
    /\ ~Accepted
    /\ Unsupported

-----------------------------------------------------------------------------
(* Further claims about Validate, under SpecValidate *)

-----------------------------------------------------------------------------
(* Validate on fields about the limits of int64: SpecRange *)

\* "9223372036854775807" and so on, character by character
Chars19(a, b, c, d, e) ==
    <<"9", "2", "2", "3", "3", "7", "2", "0", "3", "6", "8", "5", "4", "7">> \o <<a, b, c, d, e>>

RangeFields ==
    {<<"0">>, <<"-", "0">>, <<"0", "0", "7">>, <<"-", "4", "2">>, <<"+", "5">>,
     Chars19("7", "5", "8", "0", "7"),
     Chars19("7", "5", "8", "0", "8"),
     <<"+">> \o Chars19("7", "5", "8", "0", "7"),
     <<"-">> \o Chars19("7", "5", "8", "0", "8"),
     <<"-">> \o Chars19("7", "5", "8", "0", "9"),
     <<"0", "0">> \o Chars19("7", "5", "8", "0", "7"),
     Chars19("8", "5", "8", "0", "7"),
     <<"1", "8", "4", "4", "6", "7", "4", "4", "0", "7", "3", "7", "0", "9", "5", "5", "1",
       "6", "1", "7">>,
     <<"-", "1", "8", "4", "4", "6", "7", "4", "4", "0", "7", "3", "7", "0", "9", "5", "5",
       "1", "6", "1", "6">>,
     <<"1">> \o [k \in 1..24 |-> "0"]}

\* one field, two fields in a row, two fields in a column
RangeContents ==
    {[Content |-> << <<f>> >>] : f \in RangeFields}
    \cup {[Content |-> << <<f, g>> >>] : f, g \in RangeFields}
    \cup {[Content |-> << <<f>>, <<g>> >>] : f, g \in RangeFields}

InitRange ==
    /\ ctx \in CtxStates
    /\ rawData \in RangeContents
    /\ operation = ""
    /\ filePath = EmptyStr
    /\ pc = "call"
    /\ entryCtx = "none"
    /\ calls = <<>>
    /\ file = Nil
    /\ fileOpens = 0
    /\ matrix = Nil
    /\ result = EmptyStr
    /\ err = Nil
    /\ request = Nil
    /\ response = Nil
    /\ invocations = <<>>
    /\ registry = matrixOperations

NextRange == CallValidate

SpecRange == InitRange /\ [][NextRange]_vars

\* 2^63 as the cube of 2^21
natTwo63 ==
    natMul(natMul(natOfLiteral(2097152), natOfLiteral(2097152)), natOfLiteral(2097152))

\* the field, an optional sign and digits, denotes a number below -2^63 or
\* above 2^63 - 1
BeyondInt64(field) ==
    LET c == natCmp(DigitsValue(Unsigned(field), <<>>), natTwo63)
    IN IF Head(field) = "-" THEN c > 0 ELSE c >= 0

\* the field as fmt's %d writes the number it denotes: no "+", no leading
\* zeros, no "-0"
Canonical(field) ==
    LET d == StripZeros(Unsigned(field))
    IN IF Head(field) = "-" /\ d # <<"0">> THEN <<"-">> \o d ELSE d

FieldCells(raw) ==
    {c \in (1..Len(raw.Content)) \X (1..2) : c[2] <= Len(raw.Content[c[1]])}

\* what C30 says of a call that returned
RangeRespected ==
    LET beyond == {c \in FieldCells(rawData) : BeyondInt64(rawData.Content[c[1]][c[2]])}
    IN IF beyond # {}
       THEN matrix = Nil /\ ErrorsIs(err, ErrUnprocessableEntity)
       ELSE /\ err = Nil
            /\ matrix # Nil
            /\ \A c \in FieldCells(rawData) :
                 FormatInt(matrix.Data[c[1]][c[2]]) = Canonical(rawData.Content[c[1]][c[2]])

\* C30 as stated: whatever the context, content with a field that denotes a
\* number outside [-2^63, 2^63 - 1] makes Validate fail with
\* UnprocessableEntity and return no matrix, and content whose fields all
\* denote numbers within the range is stored exactly.
C30_RangeAlwaysRespected == pc = "ret" => RangeRespected

\* C30: on a context that is neither cancelled nor expired, content with a
\* field that denotes a number outside [-2^63, 2^63 - 1] makes Validate fail
\* with UnprocessableEntity and return no matrix, so no wrapped or truncated
\* value is stored, and content whose fields are plain decimal integers within
\* the range is stored exactly; on a cancelled or expired context Validate
\* returns no matrix and the context's error.
C30_RangeRespected ==
    pc = "ret" =>
        IF entryCtx = "active" THEN RangeRespected
        ELSE matrix = Nil /\ err = CtxErr(entryCtx)

\* 2^63 - 1 beside 2^64 + 1, which a wrap would turn into 1: no matrix
C30_Witness ==
    /\ pc = "ret"
    /\ entryCtx = "active"
    /\ rawData.Content[1][1] = Chars19("7", "5", "8", "0", "7")
    /\ Len(rawData.Content[1]) = 2
    /\ rawData.Content[1][2] = <<"1", "8", "4", "4", "6", "7", "4", "4", "0", "7", "3", "7",
                                 "0", "9", "5", "5", "1", "6", "1", "7">>
    /\ matrix = Nil
    /\ ErrorsIs(err, ErrUnprocessableEntity)

====
